---- MODULE Spec2Model ----
(***************************************************************************)
(* Upload classification and multi-item assessment pipeline of the laptop  *)
(* damage assessment server: the multer upload parser, the per-file loop   *)
(* of POST /api/assessments, the image normalizer, the video assessor, the *)
(* reply validation and the Record Store insert.                           *)
(*                                                                         *)
(* A MIME type "t/s" is the pair <<t, s>>; a file name "b.e" is the record *)
(* [base |-> b, ext |-> e].  A confidence is counted in tenths (0.3 is 3). *)
(***************************************************************************)
EXTENDS Integers, Sequences, FiniteSets, TLC

VARIABLES files, pc, idx, kind, stage, env, ops, aiResult, results, response,
          rows, diffAt, cIn, cOut, batchCall, tmp, now, search, disk, call,
          probe

vars == <<files, pc, idx, kind, stage, env, ops, aiResult, results, response,
          rows, diffAt, cIn, cOut, batchCall, tmp, now, search, disk, call,
          probe>>

\* The temporary directory and the two calls of extractVideoFrames of
\* SpecFrames, and the call of getVideoMetadata of SpecProbe.
frameVars == <<disk, call, probe>>

reqVars == <<files, pc, idx, kind, stage, env, ops, aiResult, results,
             response, rows, diffAt>>

\* Largest batch the model submits in full (the code admits up to 5 files).
MaxFiles == 2

\* The clock (Date.now(), in milliseconds) runs from 0 to MaxClock.
MaxClock == 1

\* Request 1 is the request under study; request 2 is its twin in SpecIso.
Reqs == {1, 2}

----------------------------------------------------------------------------
(* Strings *)

\* String.prototype.toLowerCase and the /i flag, on the strings of the model.
Lower(s) ==
  CASE s = "IMAGE" -> "image"
    [] s = "VIDEO" -> "video"
    [] s = "JPEG" -> "jpeg"
    [] s = "MP4" -> "mp4"
    [] s = "HEIC" -> "heic"
    [] s = "Application" -> "application"
    [] s = "Octet-Stream" -> "octet-stream"
    [] OTHER -> s

OctetStream == <<"application", "octet-stream">>

ImageExts == {"heic", "heif"}

VideoExts == {"mp4", "webm", "mov", "avi", "mkv"}

\* originalname.match(/\.(heic|heif)$/i)
MatchesImageExt(name) == Lower(name.ext) \in ImageExts

\* originalname.match(/\.(mp4|webm|mov|avi|mkv)$/i)
MatchesVideoExt(name) == Lower(name.ext) \in VideoExts

----------------------------------------------------------------------------
(* Upload parsing: multer configuration of POST /api/assessments *)

\* limits.fileSize: 50 * 1024 * 1024
UploadFileSizeLimit == 52428800

\* upload.array('files', 5)
UploadMaxCount == 5

AllowedImageSubtypes ==
  {"jpeg", "jpg", "png", "gif", "webp", "bmp", "tiff", "heic", "heif"}

AllowedVideoSubtypes ==
  {"mp4", "webm", "mov", "avi", "mkv", "quicktime", "x-msvideo", "x-matroska"}

\* /^image\/(jpeg|jpg|png|gif|webp|bmp|tiff|heic|heif)$/i.test(mimetype)
allowedImageTypes(m) ==
  Lower(m[1]) = "image" /\ Lower(m[2]) \in AllowedImageSubtypes

\* /^video\/(mp4|webm|mov|avi|mkv|quicktime|x-msvideo|x-matroska)$/i.test(mimetype)
allowedVideoTypes(m) ==
  Lower(m[1]) = "video" /\ Lower(m[2]) \in AllowedVideoSubtypes

filterIsVideo(f) ==
  \/ allowedVideoTypes(f.mimetype)
  \/ f.mimetype = <<"application", "mp4">>
  \/ f.mimetype = <<"video", "x-mp4">>
  \/ (f.mimetype = OctetStream /\ MatchesVideoExt(f.originalname))

filterIsImage(f) ==
  \/ allowedImageTypes(f.mimetype)
  \/ (f.mimetype = OctetStream /\ MatchesImageExt(f.originalname))

\* A filter that admits every file.
fileFilter_AdmitAll(f) == TRUE

\* upload.fileFilter: TRUE when the file is admitted, FALSE when cb(new Error)
fileFilter(f) == filterIsImage(f) \/ filterIsVideo(f)

NoError == [code |-> "", message |-> ""]

\* The error multer raises for file k of the stream, NoError when it raises
\* none: the count is checked when the file part starts, then the filter is
\* asked, then the size limit is hit while the bytes are read.
FileError(fs, k) ==
  IF k > UploadMaxCount
    THEN [code |-> "LIMIT_UNEXPECTED_FILE", message |-> "Unexpected field"]
  ELSE IF ~fileFilter(fs[k])
    THEN [code |-> "", message |-> "Only image files"]
  ELSE IF fs[k].size > UploadFileSizeLimit
    THEN [code |-> "LIMIT_FILE_SIZE", message |-> "File too large"]
  ELSE NoError

Offending(fs) == {k \in 1..Len(fs) : FileError(fs, k) # NoError}

Min(S) == CHOOSE x \in S : \A y \in S : x <= y

\* multer stops at the first offending file and passes its error on.
UploadError(fs) ==
  IF Offending(fs) = {} THEN NoError ELSE FileError(fs, Min(Offending(fs)))

\* A handler without the LIMIT_FILE_SIZE case.
handleMulterError_NoSizeCase(err) ==
  IF err.message \in {"Only image files", "Only video files", "File type"}
    THEN [status |-> 400, error |-> "Invalid file type"]
  ELSE [status |-> 400, error |-> "File upload error"]

\* handleMulterError: the response sent for a multer error.
handleMulterError(err) ==
  IF err.code = "LIMIT_FILE_SIZE"
    THEN [status |-> 413, error |-> "File too large"]
  ELSE IF err.code = "LIMIT_FILE_COUNT"
    THEN [status |-> 400, error |-> "Too many files"]
  ELSE IF err.message \in {"Only image files", "Only video files", "File type"}
    THEN [status |-> 400, error |-> "Invalid file type"]
  ELSE [status |-> 400, error |-> "File upload error"]

----------------------------------------------------------------------------
(* Media classification in the handler of POST /api/assessments *)

\* An isImage without the rule for HEIC files sent as octet-stream.
isImage_NoHeicRule(f) == f.mimetype[1] = "image"

\* file.mimetype.startsWith('image/') || (octet-stream && /\.(heic|heif)$/i)
isImage(f) ==
  \/ f.mimetype[1] = "image"
  \/ (f.mimetype = OctetStream /\ MatchesImageExt(f.originalname))

\* file.mimetype.startsWith('video/') || application/mp4 || video/x-mp4 ||
\* (octet-stream && /\.(mp4|webm|mov|avi|mkv)$/i)
isVideo(f) ==
  \/ f.mimetype[1] = "video"
  \/ f.mimetype = <<"application", "mp4">>
  \/ f.mimetype = <<"video", "x-mp4">>
  \/ (f.mimetype = OctetStream /\ MatchesVideoExt(f.originalname))

\* The kind the per-file branches give the file: the "Invalid file type"
\* branch first, then isImage decides between the image and the video path.
classify(f) ==
  IF ~isImage(f) /\ ~isVideo(f) THEN "Unsupported"
  ELSE IF isImage(f) THEN "Image"
  ELSE "Video"

\* if (isImage && file.size < 100)
MinImageSize == 100

\* POST /api/assessments/batch: uploadMultiple.fileFilter, TRUE when the file
\* is admitted.
fileFilterMultiple(f) ==
  \/ f.mimetype[1] = "image"
  \/ (f.mimetype = OctetStream /\ MatchesImageExt(f.originalname))
  \/ f.mimetype[1] = "video"

\* isVideo in the loop of POST /api/assessments/batch
isVideoBatch(f) == f.mimetype[1] = "video"

\* The kind the branches of the loop of POST /api/assessments/batch give the
\* file; its isImage is that of POST /api/assessments.
classifyBatch(f) ==
  IF ~isImage(f) /\ ~isVideoBatch(f) THEN "Unsupported"
  ELSE IF isImage(f) THEN "Image"
  ELSE "Video"

----------------------------------------------------------------------------
(* Image normalizer, frame sampler and reply validation *)

Grades == {"A", "B", "C", "D"}

Severities == {"Low", "Medium", "High"}

\* z.number().min(0).max(1), in tenths
ConfidenceMin == 0

ConfidenceMax == 10

\* if (!imageBase64 || imageBase64.length < 50)
MinBase64Length == 50

\* extractVideoFrames(videoBuffer, 3)
NumFrames == 3

\* fileToBase64: the length of Buffer.toString('base64') of size bytes
Base64Length(size) == 4 * ((size + 2) \div 3)

originalSupportedTypes ==
  {<<"image", "jpeg">>, <<"image", "jpg">>, <<"image", "png">>,
   <<"image", "gif">>, <<"image", "webp">>, <<"image", "heic">>,
   <<"image", "heif">>}

CanonicalMime == <<"image", "jpeg">>

NoMime == <<"", "">>

\* A normalizer without the allow-list of declared types.
prepareImageForVision_NoAllowList(b64len, mimeType, decodes) ==
  IF b64len = 0 \/ b64len < MinBase64Length
    THEN [ok |-> FALSE, error |-> "Image data is too small or corrupted",
          offending |-> NoMime, processedMimeType |-> NoMime, decoded |-> FALSE]
  ELSE IF b64len % 4 # 0
    THEN [ok |-> FALSE, error |-> "Invalid image data format",
          offending |-> NoMime, processedMimeType |-> NoMime, decoded |-> FALSE]
  ELSE IF ~decodes
    THEN [ok |-> FALSE, error |-> "Invalid or corrupted image file",
          offending |-> NoMime, processedMimeType |-> NoMime, decoded |-> TRUE]
  ELSE [ok |-> TRUE, error |-> "", offending |-> NoMime,
        processedMimeType |-> CanonicalMime, decoded |-> TRUE]

\* A normalizer that keeps the declared type of the image it re-encodes.
prepareImageForVision_KeepFormat(b64len, mimeType, decodes) ==
  IF b64len = 0 \/ b64len < MinBase64Length
    THEN [ok |-> FALSE, error |-> "Image data is too small or corrupted",
          offending |-> NoMime, processedMimeType |-> NoMime, decoded |-> FALSE]
  ELSE IF b64len % 4 # 0
    THEN [ok |-> FALSE, error |-> "Invalid image data format",
          offending |-> NoMime, processedMimeType |-> NoMime, decoded |-> FALSE]
  ELSE IF <<Lower(mimeType[1]), Lower(mimeType[2])>> \notin originalSupportedTypes
    THEN [ok |-> FALSE, error |-> "Image format is not supported",
          offending |-> mimeType, processedMimeType |-> NoMime,
          decoded |-> FALSE]
  ELSE IF ~decodes
    THEN [ok |-> FALSE, error |-> "Invalid or corrupted image file",
          offending |-> NoMime, processedMimeType |-> NoMime, decoded |-> TRUE]
  ELSE [ok |-> TRUE, error |-> "", offending |-> NoMime,
        processedMimeType |-> mimeType, decoded |-> TRUE]

\* prepareImageForVision: base64 text of b64len characters, declared type
\* mimeType; decodes says whether sharp can decode and re-encode the bytes.
prepareImageForVision(b64len, mimeType, decodes) ==
  IF b64len = 0 \/ b64len < MinBase64Length
    THEN [ok |-> FALSE, error |-> "Image data is too small or corrupted",
          offending |-> NoMime, processedMimeType |-> NoMime, decoded |-> FALSE]
  ELSE IF b64len % 4 # 0
    THEN [ok |-> FALSE, error |-> "Invalid image data format",
          offending |-> NoMime, processedMimeType |-> NoMime, decoded |-> FALSE]
  ELSE IF <<Lower(mimeType[1]), Lower(mimeType[2])>> \notin originalSupportedTypes
    THEN [ok |-> FALSE, error |-> "Image format is not supported",
          offending |-> mimeType, processedMimeType |-> NoMime,
          decoded |-> FALSE]
  ELSE IF ~decodes
    THEN [ok |-> FALSE, error |-> "Invalid or corrupted image file",
          offending |-> NoMime, processedMimeType |-> NoMime, decoded |-> TRUE]
  ELSE [ok |-> TRUE, error |-> "", offending |-> NoMime,
        processedMimeType |-> CanonicalMime, decoded |-> TRUE]

\* One run of extractVideoFrames as its environment decides it: whether
\* fs.writeFile of the source file, ffprobe and ffmpeg succeed, how many frame
\* files (frame 1 .. frame written) ffmpeg wrote before it ended, and which
\* of them exist but cannot be read back.
Run(w, p, f, n, u) ==
  [write |-> w, probe |-> p, ffmpeg |-> f, written |-> n, unreadable |-> u]

\* The run logged when extractVideoFrames is not called.
NotRun == Run("na", "na", "na", 0, {})

\* ffmpeg (the child process of execAsync) never exits in the run.
Hangs(run) == run.write = "ok" /\ run.ffmpeg = "hang"

\* An extractor that reports success whatever the number of frames read.
extractVideoFrames_NoEmptyCheck(run) ==
  LET read == {k \in 1..run.written : k \notin run.unreadable} IN
  IF run.write = "throw" \/ run.ffmpeg = "throw"
    THEN [success |-> FALSE, frames |-> 0,
          error |-> "Video processing failed",
          leftover |-> IF run.write = "throw" THEN {} ELSE 1..run.written]
  ELSE [success |-> TRUE, frames |-> Cardinality(read), error |-> "",
        leftover |-> run.unreadable]

\* extractVideoFrames(videoBuffer, NumFrames) in the run given: its result
\* (frames is the number of frames returned) and the temporary frame files
\* of the call that exist when it returns (the source file never does).  getVideoMetadata catches its own errors,
\* so a failed probe does not end the call.  The catch removes the source
\* file only; a frame is removed after it was read.
extractVideoFrames(run) ==
  LET read == {k \in 1..run.written : k \notin run.unreadable} IN
  IF run.write = "throw"
    THEN [success |-> FALSE, frames |-> 0,
          error |-> "Video processing failed", leftover |-> {}]
  ELSE IF run.ffmpeg = "throw"
    THEN [success |-> FALSE, frames |-> 0,
          error |-> "Video processing failed", leftover |-> 1..run.written]
  ELSE IF Cardinality(read) = 0
    THEN [success |-> FALSE, frames |-> 0,
          error |-> "No frames could be extracted from video",
          leftover |-> run.unreadable]
  ELSE [success |-> TRUE, frames |-> Cardinality(read), error |-> "",
        leftover |-> run.unreadable]

\* A schema without the bounds on confidence.
validateAIResponse_NoRange(raw) ==
  /\ raw.grade \in Grades
  /\ \A k \in 1..Len(raw.detailedFindings) :
       raw.detailedFindings[k].severity \in Severities

\* aiAssessmentResponseSchema.parse
validateAIResponse(raw) ==
  /\ raw.grade \in Grades
  /\ raw.confidence >= ConfidenceMin
  /\ raw.confidence <= ConfidenceMax
  /\ \A k \in 1..Len(raw.detailedFindings) :
       raw.detailedFindings[k].severity \in Severities

NoAssessment ==
  [grade |-> "", confidence |-> 0, overallCondition |-> "",
   damageTypes |-> <<>>, detailedFindings |-> <<>>, framesAnalyzed |-> 0]

\* The reply handling shared by assessLaptopDamage and
\* assessLaptopDamageFromVideo: the call itself, the empty content check,
\* JSON.parse and validateAIResponse.
parseReply(reply) ==
  IF reply.kind = "neterr"
    THEN [ok |-> FALSE, error |-> "OpenAI API error", value |-> NoAssessment]
  ELSE IF reply.kind = "empty"
    THEN [ok |-> FALSE, error |-> "No response content from OpenAI",
          value |-> NoAssessment]
  ELSE IF reply.kind = "badjson" \/ ~validateAIResponse(reply)
    THEN [ok |-> FALSE, error |-> "Invalid JSON response from AI assessment",
          value |-> NoAssessment]
  ELSE [ok |-> TRUE, error |-> "",
        value |-> [grade |-> reply.grade, confidence |-> reply.confidence,
                   overallCondition |-> "model",
                   damageTypes |-> reply.damageTypes,
                   detailedFindings |-> reply.detailedFindings,
                   framesAnalyzed |-> 0]]

\* A fallback that grades the video D.
videoFallback_GradeD ==
  [grade |-> "D", confidence |-> 3,
   overallCondition |-> "Video processing failed",
   damageTypes |-> <<"Video Processing Error">>,
   detailedFindings |->
     <<[category |-> "Overall Structure", severity |-> "Medium",
        description |-> "Manual review required"]>>,
   framesAnalyzed |-> 0]

\* aiResult of the catch (videoError) branch of the handler
videoFallback ==
  [grade |-> "C", confidence |-> 3,
   overallCondition |-> "Video processing failed",
   damageTypes |-> <<"Video Processing Error">>,
   detailedFindings |->
     <<[category |-> "Overall Structure", severity |-> "Medium",
        description |-> "Manual review required"]>>,
   framesAnalyzed |-> 0]

----------------------------------------------------------------------------
(* Inputs the model draws from *)

File(m, b, e, sz) ==
  [mimetype |-> m, originalname |-> [base |-> b, ext |-> e], size |-> sz]

JpegPhoto == File(<<"image", "jpeg">>, "photo", "jpg", 2048)

TinyJpeg == File(<<"image", "jpeg">>, "tiny", "jpg", 50)

BmpScan == File(<<"image", "bmp">>, "scan", "bmp", 2048)

OctetHeic == File(OctetStream, "IMG_1", "heic", 2048)

Mp4Clip == File(<<"video", "mp4">>, "clip", "mp4", 4096)

TextAsJpg == File(<<"text", "plain">>, "photo", "jpg", 2048)

HugeJpeg == File(<<"image", "jpeg">>, "huge", "jpg", 62914560)

\* The files batches are made of.
BatchFiles ==
  {JpegPhoto, TinyJpeg, BmpScan, OctetHeic, Mp4Clip, TextAsJpg, HugeJpeg}

\* The files of the twin runs of SpecIso.
IsoFiles == {JpegPhoto, TinyJpeg, Mp4Clip, TextAsJpg}

SeqsUpTo(S, n) == UNION {[1..k -> S] : k \in 0..n}

\* One batch above the file count limit.
OverCountBatch == [k \in 1..(UploadMaxCount + 1) |-> JpegPhoto]

Batches == SeqsUpTo(BatchFiles, MaxFiles) \cup {OverCountBatch}

ModelFindings(sev) ==
  <<[category |-> "Screen", severity |-> sev, description |-> "model"]>>

Reply(k, g, c, sev) ==
  [kind |-> k, grade |-> g, confidence |-> c,
   damageTypes |-> <<"Scratches">>, detailedFindings |-> ModelFindings(sev),
   imageAnalyses |-> <<>>]

NoReply == [kind |-> "na", grade |-> "", confidence |-> 0,
            damageTypes |-> <<>>, detailedFindings |-> <<>>,
            imageAnalyses |-> <<>>]

\* A reply to the multi-image request: the single-image fields and one
\* imageAnalyses entry of index i.
MultiReply(k, g, c, sev, i) ==
  [Reply(k, g, c, sev) EXCEPT
     !.imageAnalyses = <<[imageIndex |-> i, summary |-> "model",
                          detailedFindings |-> ModelFindings("Low")]>>]

MultiReplies ==
  {MultiReply("neterr", "", 0, "Low", 1), MultiReply("empty", "", 0, "Low", 1),
   MultiReply("badjson", "", 0, "Low", 1), MultiReply("json", "B", 5, "Low", 1),
   MultiReply("json", "E", 5, "Low", 1), MultiReply("json", "B", 12, "Low", 1),
   MultiReply("json", "B", 5, "Critical", 1),
   MultiReply("json", "B", 5, "Low", 0)}

Image(len, m, d) == [b64len |-> len, mimeType |-> m, decodes |-> d]

\* The images assessLaptopDamageBatch is called with.
BatchImages ==
  {Image(2732, <<"image", "jpeg">>, TRUE), Image(2732, <<"image", "png">>, TRUE),
   Image(2732, <<"image", "jpeg">>, FALSE), Image(2732, <<"image", "bmp">>, TRUE),
   Image(16, <<"image", "jpeg">>, TRUE), Image(0, <<"image", "jpeg">>, TRUE)}

ImageBatches == SeqsUpTo(BatchImages, MaxFiles)

\* What the model call can come back with: a failed call, an empty content,
\* text that is not JSON, and JSON objects, valid and invalid.
Replies ==
  {Reply("neterr", "", 0, "Low"), Reply("empty", "", 0, "Low"),
   Reply("badjson", "", 0, "Low"), Reply("json", "B", 5, "Low"),
   Reply("json", "E", 5, "Low"), Reply("json", "B", 12, "Low"),
   Reply("json", "B", 5, "Critical")}

\* The runs of extractVideoFrames: the write fails; ffmpeg fails after it
\* wrote one frame; ffmpeg succeeds with no frame, with all frames (after a
\* failed probe), with all frames and frame 2 unreadable, with one frame
\* that is unreadable.
ExtractionRuns ==
  {Run("throw", "na", "na", 0, {}), Run("ok", "ok", "throw", 1, {}),
   Run("ok", "ok", "ok", 0, {}), Run("ok", "fail", "ok", NumFrames, {}),
   Run("ok", "ok", "ok", NumFrames, {2}), Run("ok", "ok", "ok", 1, {1})}

NoFrameResult == [success |-> FALSE, frames |-> 0, error |-> "",
                  leftover |-> {}]

\* run and frameResult are the run of extractVideoFrames and its result;
\* decoder and nRead sum them up.
NoEnv == [decode |-> "na", ffmpeg |-> "na", decoder |-> "na", nRead |-> 0,
          reply |-> NoReply, store |-> "na", prepared |-> NoMime,
          dataUrl |-> NoMime, run |-> NotRun, frameResult |-> NoFrameResult]

----------------------------------------------------------------------------
(* State *)

NoResponse == [status |-> 0, error |-> "", success |-> FALSE, results |-> <<>>]

NoQuery == [grades |-> <<>>, q |-> <<>>]

\* search is the last call of GET /api/assessments/search and its response.
NoSearch == [state |-> "none", query |-> NoQuery, results |-> <<>>]

NoBatchCall == [state |-> "none", ok |-> FALSE, error |-> "",
                value |-> NoAssessment, images |-> <<>>, requests |-> <<>>,
                prepared |-> <<>>, parts |-> <<>>, reply |-> NoReply]

NoFileIn == File(NoMime, "", "", 0)

\* The source text of a frame rate: a fraction "n/d", a number "n", a word
\* that names nothing ("abc"), or a script that has the effect given and
\* the value n.
Fraction(n, d) == [form |-> "fraction", n |-> n, d |-> d, effect |-> ""]

Numeral(n) == [form |-> "number", n |-> n, d |-> 1, effect |-> ""]

Word == [form |-> "word", n |-> 0, d |-> 1, effect |-> ""]

Script(e, n) == [form |-> "script", n |-> n, d |-> 1, effect |-> e]

\* A JavaScript number: the rational n/d, Infinity or NaN.
Num(n, d) == [is |-> "number", n |-> n, d |-> d]

Infinity == [is |-> "infinity", n |-> 0, d |-> 1]

NaN == [is |-> "nan", n |-> 0, d |-> 1]

NoMetadata == [duration |-> 0, width |-> 0, height |-> 0, fps |-> Num(0, 1)]

\* What ffprobe printed: whether the command succeeded, whether a video
\* stream is listed, and the fields read from it.
ProbeOutput(x, v, dur, w, h, rate) ==
  [exec |-> x, hasVideo |-> v, duration |-> dur, width |-> w, height |-> h,
   r_frame_rate |-> rate]

NoProbe == [state |-> "none",
            out |-> ProbeOutput("na", FALSE, 0, 0, 0, Word),
            metadata |-> NoMetadata, effects |-> {}]

\* A call of extractVideoFrames: where it is, the instants behind its two
\* paths, the number of the frame it reads next and, for each frame it has
\* read, the call whose video the frame was taken from.
NoCall == [at |-> "idle", videoPath |-> 0, framePattern |-> 0, next |-> 0,
           frames |-> <<>>, success |-> FALSE]

\* What the two endpoints make of a file: whether the upload filter admits
\* it and the kind the loop gives it.
NoKind == [isImage |-> FALSE, isVideo |-> FALSE, kind |-> "",
           admitted |-> FALSE, batchAdmitted |-> FALSE, batchKind |-> ""]

Init ==
  /\ files = [r \in Reqs |-> <<>>]
  /\ pc = [r \in Reqs |-> "idle"]
  /\ idx = [r \in Reqs |-> 0]
  /\ kind = [r \in Reqs |-> <<>>]
  /\ stage = [r \in Reqs |-> <<>>]
  /\ env = [r \in Reqs |-> <<>>]
  /\ ops = [r \in Reqs |-> <<>>]
  /\ aiResult = [r \in Reqs |-> NoAssessment]
  /\ results = [r \in Reqs |-> <<>>]
  /\ response = [r \in Reqs |-> NoResponse]
  /\ rows = <<>>
  /\ diffAt = 0
  /\ cIn = NoFileIn
  /\ cOut = NoKind
  /\ batchCall = NoBatchCall
  /\ tmp = {}
  /\ now = 0
  /\ search = NoSearch
  /\ disk = {}
  /\ call = [c \in Reqs |-> NoCall]
  /\ probe = NoProbe

\* Under SpecIso the twin replays, for every file but file diffAt, what the
\* model, the decoder and the store did for that file in request 1.
Replays(r, field, v) ==
  (r = 2 /\ diffAt # 0 /\ idx[r] # diffAt /\ idx[r] <= Len(env[1])) =>
    v = env[1][idx[r]][field]

\* The client posts the batch fs.
Submit(r, fs) ==
  /\ pc[r] = "idle"
  /\ batchCall.state = "none"
  /\ files' = [files EXCEPT ![r] = fs]
  /\ pc' = [pc EXCEPT ![r] = "parsing"]
  /\ UNCHANGED <<idx, kind, stage, env, ops, aiResult, results, response,
                 rows, diffAt, frameVars, cIn, cOut, batchCall, tmp, now, search>>

\* upload.array('files', 5) fails and handleMulterError answers.
UploadRejected(r) ==
  /\ pc[r] = "parsing"
  /\ UploadError(files[r]) # NoError
  /\ LET h == handleMulterError(UploadError(files[r])) IN
       response' = [response EXCEPT ![r] =
                      [status |-> h.status, error |-> h.error,
                       success |-> FALSE, results |-> <<>>]]
  /\ pc' = [pc EXCEPT ![r] = "responded"]
  /\ UNCHANGED <<files, idx, kind, stage, env, ops, aiResult, results, rows,
                 diffAt, frameVars, cIn, cOut, batchCall, tmp, now, search>>

\* The handler finds req.files empty.
NoFilesUploaded(r) ==
  /\ pc[r] = "parsing"
  /\ UploadError(files[r]) = NoError
  /\ Len(files[r]) = 0
  /\ response' = [response EXCEPT ![r] =
                    [status |-> 400, error |-> "No files uploaded",
                     success |-> FALSE, results |-> <<>>]]
  /\ pc' = [pc EXCEPT ![r] = "responded"]
  /\ UNCHANGED <<files, idx, kind, stage, env, ops, aiResult, results, rows,
                 diffAt, frameVars, cIn, cOut, batchCall, tmp, now, search>>

\* The handler starts its loop over req.files.
StartHandling(r) ==
  /\ pc[r] = "parsing"
  /\ UploadError(files[r]) = NoError
  /\ Len(files[r]) > 0
  /\ pc' = [pc EXCEPT ![r] = "handling"]
  /\ idx' = [idx EXCEPT ![r] = 1]
  /\ kind' = [kind EXCEPT ![r] = [k \in 1..Len(files[r]) |-> ""]]
  /\ stage' = [stage EXCEPT ![r] = [k \in 1..Len(files[r]) |-> "Received"]]
  /\ env' = [env EXCEPT ![r] = [k \in 1..Len(files[r]) |-> NoEnv]]
  /\ ops' = [ops EXCEPT ![r] = [k \in 1..Len(files[r]) |-> <<>>]]
  /\ UNCHANGED <<files, aiResult, results, response, rows, diffAt, frameVars, cIn, cOut,
                 batchCall, tmp, now, search>>

----------------------------------------------------------------------------
(* The per-file loop of POST /api/assessments *)

Done(r) == pc[r] = "responded"

CurFile(r) == files[r][idx[r]]

AtStage(r, st) ==
  /\ pc[r] = "handling"
  /\ idx[r] <= Len(files[r])
  /\ stage[r][idx[r]] = st

SetStage(r, st) == stage' = [stage EXCEPT ![r][idx[r]] = st]

Did(r, op) == ops' = [ops EXCEPT ![r][idx[r]] = Append(@, op)]

Log(r, field, v) == [env[r][idx[r]] EXCEPT ![field] = v]

FailureEntry(f, msg) ==
  [originalFileName |-> f.originalname, success |-> FALSE,
   assessment |-> NoAssessment, error |-> msg]

SuccessEntry(f, a) ==
  [originalFileName |-> f.originalname, success |-> TRUE,
   assessment |-> a, error |-> ""]

\* A failure path that pushes the entry and leaves the loop.
RecordFailure_Break(r, msg) ==
  /\ results' = [results EXCEPT ![r] = Append(@, FailureEntry(CurFile(r), msg))]
  /\ SetStage(r, "RecordedFailure")
  /\ idx' = [idx EXCEPT ![r] = Len(files[r]) + 1]
  /\ aiResult' = [aiResult EXCEPT ![r] = NoAssessment]

\* A failure path that moves on without pushing an entry.
RecordFailure_NoPush(r, msg) ==
  /\ UNCHANGED results
  /\ SetStage(r, "RecordedFailure")
  /\ idx' = [idx EXCEPT ![r] = @ + 1]
  /\ aiResult' = [aiResult EXCEPT ![r] = NoAssessment]

\* results.push({ success: false, error }) and the loop moves on: by a
\* continue of the early branches or by the catch (fileError) of the file.
RecordFailure(r, msg) ==
  /\ results' = [results EXCEPT ![r] = Append(@, FailureEntry(CurFile(r), msg))]
  /\ SetStage(r, "RecordedFailure")
  /\ idx' = [idx EXCEPT ![r] = @ + 1]
  /\ aiResult' = [aiResult EXCEPT ![r] = NoAssessment]

\* A loop that classifies any file that waits, whether or not the files
\* before it are done (files.map and Promise.all).
Classify_AnyOrder(r) ==
  /\ pc[r] = "handling"
  /\ \E k \in 1..Len(files[r]) :
       /\ stage[r][k] = "Received"
       /\ kind' = [kind EXCEPT ![r][k] = classify(files[r][k])]
       /\ stage' = [stage EXCEPT ![r][k] = "Classified"]
       /\ ops' = [ops EXCEPT ![r][k] = Append(@, "classify")]
  /\ UNCHANGED <<files, pc, idx, env, aiResult, results, response, rows,
                 diffAt, frameVars, cIn, cOut, batchCall, tmp, now, search>>

\* isImage and isVideo are computed for the file.
Classify(r) ==
  /\ AtStage(r, "Received")
  /\ kind' = [kind EXCEPT ![r][idx[r]] = classify(CurFile(r))]
  /\ SetStage(r, "Classified")
  /\ Did(r, "classify")
  /\ UNCHANGED <<files, pc, idx, env, aiResult, results, response, rows,
                 diffAt, frameVars, cIn, cOut, batchCall, tmp, now, search>>

\* Branches without the minimum size branch of an image.
Dispatch_NoSizeCheck(r) ==
  /\ AtStage(r, "Classified")
  /\ IF kind[r][idx[r]] = "Unsupported"
       THEN RecordFailure(r, "Invalid file type")
     ELSE /\ SetStage(r, IF kind[r][idx[r]] = "Image" THEN "Normalizing"
                                                      ELSE "Sampling")
          /\ UNCHANGED <<idx, aiResult, results>>
  /\ UNCHANGED <<files, pc, kind, env, ops, response, rows, diffAt, frameVars, cIn, cOut,
                 batchCall, tmp, now, search>>

\* The branches on the kind, up to the first await: the "Invalid file type"
\* branch, the minimum size branch of an image, then the image or the video
\* path.
Dispatch(r) ==
  /\ AtStage(r, "Classified")
  /\ IF kind[r][idx[r]] = "Unsupported"
       THEN RecordFailure(r, "Invalid file type")
     ELSE IF kind[r][idx[r]] = "Image" /\ CurFile(r).size < MinImageSize
       THEN RecordFailure(r, "Image file appears to be corrupted or empty.")
     ELSE /\ SetStage(r, IF kind[r][idx[r]] = "Image" THEN "Normalizing"
                                                      ELSE "Sampling")
          /\ UNCHANGED <<idx, aiResult, results>>
  /\ UNCHANGED <<files, pc, kind, env, ops, response, rows, diffAt, frameVars, cIn, cOut,
                 batchCall, tmp, now, search>>

\* assessLaptopDamage up to its model call: prepareImageForVision; an error
\* it throws reaches the catch (fileError) of the file.
Normalize(r, decode) ==
  /\ AtStage(r, "Normalizing")
  /\ LET f == CurFile(r)
         p == prepareImageForVision(Base64Length(f.size), f.mimetype,
                                    decode = "ok")
         used == IF p.decoded THEN decode ELSE "na"
     IN /\ Replays(r, "decode", used)
        /\ env' = [env EXCEPT ![r][idx[r]] =
                     [@ EXCEPT !.decode = used,
                               !.prepared = p.processedMimeType]]
        /\ Did(r, "normalize")
        /\ IF p.ok
             THEN /\ SetStage(r, "Assessing")
                  /\ UNCHANGED <<idx, aiResult, results>>
             ELSE RecordFailure(r, p.error)
  /\ UNCHANGED <<files, pc, kind, response, rows, diffAt, frameVars, cIn, cOut,
                 batchCall, tmp, now, search>>

\* A video path without the catch (videoError): what the frame extraction
\* throws reaches the catch (fileError) of the file.
Sample_NoFallback(r, ffmpeg, run) ==
  /\ AtStage(r, "Sampling")
  /\ (ffmpeg = "no") <=> (run = NotRun)
  /\ LET x == IF ffmpeg = "yes" THEN extractVideoFrames(run)
              ELSE NoFrameResult
         decoder == IF ffmpeg = "no" THEN "na"
                    ELSE IF run.write = "throw" \/ run.ffmpeg = "throw"
                      THEN "throw"
                    ELSE "ok"
         extracted == ffmpeg = "yes" /\ x.success /\ x.frames # 0
     IN /\ env' = [env EXCEPT ![r][idx[r]] =
                     [@ EXCEPT !.ffmpeg = ffmpeg, !.decoder = decoder,
                               !.nRead = x.frames, !.run = run,
                               !.frameResult = x]]
        /\ ops' = [ops EXCEPT ![r][idx[r]] =
                     IF ffmpeg = "yes" THEN Append(@, "sample") ELSE @]
        /\ tmp' = tmp \cup {[req |-> r, item |-> idx[r], file |-> k] :
                              k \in x.leftover}
        /\ IF extracted
             THEN /\ SetStage(r, "Assessing")
                  /\ UNCHANGED <<idx, aiResult, results>>
             ELSE RecordFailure(r, "Video processing failed")
  /\ UNCHANGED <<files, pc, kind, response, rows, diffAt, frameVars, cIn, cOut,
                 batchCall, now, search>>

\* assessLaptopDamageFromVideo up to its model call: checkFFmpegAvailability
\* and extractVideoFrames; what it throws is caught by catch (videoError).
\* In a run in which ffmpeg never exits the await of execAsync never
\* resumes: exec is called without a timeout, and the item stays in Sampling.
Sample(r, ffmpeg, run) ==
  /\ AtStage(r, "Sampling")
  /\ env[r][idx[r]].decoder # "hang"
  /\ (ffmpeg = "no") <=> (run = NotRun)
  /\ LET x == IF ffmpeg = "yes" /\ ~Hangs(run) THEN extractVideoFrames(run)
              ELSE NoFrameResult
         decoder == IF ffmpeg = "no" THEN "na"
                    ELSE IF Hangs(run) THEN "hang"
                    ELSE IF run.write = "throw" \/ run.ffmpeg = "throw"
                      THEN "throw"
                    ELSE "ok"
         extracted == ffmpeg = "yes" /\ x.success /\ x.frames # 0
     IN /\ Replays(r, "ffmpeg", ffmpeg)
        /\ Replays(r, "run", run)
        /\ env' = [env EXCEPT ![r][idx[r]] =
                     [@ EXCEPT !.ffmpeg = ffmpeg, !.decoder = decoder,
                               !.nRead = x.frames, !.run = run,
                               !.frameResult = x]]
        /\ ops' = [ops EXCEPT ![r][idx[r]] =
                     IF ffmpeg = "yes" THEN Append(@, "sample") ELSE @]
        /\ tmp' = tmp \cup {[req |-> r, item |-> idx[r], file |-> k] :
                              k \in x.leftover}
        /\ IF Hangs(run)
             THEN UNCHANGED <<stage, aiResult>>
           ELSE IF extracted
             THEN /\ SetStage(r, "Assessing")
                  /\ UNCHANGED aiResult
             ELSE /\ SetStage(r, "Persisting")
                  /\ aiResult' = [aiResult EXCEPT ![r] = videoFallback]
  /\ UNCHANGED <<files, pc, idx, kind, results, response, rows, diffAt, frameVars, cIn,
                 cOut, batchCall, now, search>>

\* An assessor that calls the model a second time when the first call of an
\* item fails.
Assess_Retry(r, reply) ==
  /\ AtStage(r, "Assessing")
  /\ env' = [env EXCEPT ![r][idx[r]] =
               [@ EXCEPT !.reply = reply, !.dataUrl = CanonicalMime]]
  /\ Did(r, "model")
  /\ LET p == parseReply(reply)
         first == \A k \in 1..Len(ops[r][idx[r]]) : ops[r][idx[r]][k] # "model"
     IN IF p.ok
          THEN /\ SetStage(r, "Persisting")
               /\ aiResult' = [aiResult EXCEPT ![r] = p.value]
               /\ UNCHANGED <<idx, results>>
          ELSE IF first
            THEN UNCHANGED <<stage, idx, aiResult, results>>
            ELSE RecordFailure(r, "AI assessment failed")
  /\ UNCHANGED <<files, pc, kind, response, rows, diffAt, frameVars, cIn, cOut,
                 batchCall, tmp, now, search>>

\* The model call of assessLaptopDamage / assessLaptopDamageFromVideo and
\* the handling of its reply.  An error of the image path reaches the catch
\* (fileError) of the file; an error of the video path is caught by catch
\* (videoError), which substitutes the fallback assessment.
Assess(r, reply) ==
  /\ AtStage(r, "Assessing")
  /\ Replays(r, "reply", reply)
  /\ env' = [env EXCEPT ![r][idx[r]] =
               [@ EXCEPT !.reply = reply,
                         !.dataUrl = IF kind[r][idx[r]] = "Image"
                                       THEN env[r][idx[r]].prepared
                                       ELSE CanonicalMime]]
  /\ Did(r, "model")
  /\ LET p == parseReply(reply)
         isImg == kind[r][idx[r]] = "Image"
         n == env[r][idx[r]].nRead
     IN IF p.ok
          THEN /\ SetStage(r, "Persisting")
               /\ aiResult' = [aiResult EXCEPT ![r] =
                    IF isImg THEN p.value
                    ELSE [p.value EXCEPT !.framesAnalyzed = n]]
               /\ UNCHANGED <<idx, results>>
          ELSE IF isImg
            THEN RecordFailure(r, "AI assessment failed")
            ELSE /\ SetStage(r, "Persisting")
                 /\ aiResult' = [aiResult EXCEPT ![r] = videoFallback]
                 /\ UNCHANGED <<idx, results>>
  /\ UNCHANGED <<files, pc, kind, response, rows, diffAt, frameVars, cIn, cOut,
                 batchCall, tmp, now, search>>

\* A text is the sequence of its characters; the digits of a timestamp and
\* the characters Math.random().toString(36).substr(2, 9) gives count as one
\* character each.
Suffixes == {"x", "y"}

\* `AUTO-${Date.now()}-${Math.random().toString(36).substr(2, 9)}`
Sku(t, s) == <<"A", "U", "T", "O", "-", ToString(t), "-", s>>

\* The value of a column that is null.
Null == <<"null">>

\* assessmentData of the file, written at time t with the random suffix s;
\* assessmentDate is the defaultNow() of the insert.
AssessmentRow(r, f, k, a, t, s) ==
  [req |-> r, item |-> idx[r], originalFileName |-> f.originalname,
   sku |-> Sku(t, s), brand |-> Null, model |-> Null, assessmentDate |-> t,
   grade |-> a.grade, confidence |-> a.confidence,
   damageTypes |-> a.damageTypes, detailedFindings |-> a.detailedFindings,
   fileType |-> IF k = "Image" THEN "image" ELSE "video",
   mimeType |-> f.mimetype, fileSize |-> f.size]

\* An insert whose error is not caught per file: it reaches the outer catch
\* of the handler, which answers 500.
Persist_Uncaught(r, store, t, s) ==
  /\ AtStage(r, "Persisting")
  /\ env' = [env EXCEPT ![r][idx[r]] = Log(r, "store", store)]
  /\ Did(r, "store")
  /\ t >= now
  /\ now' = t
  /\ IF store = "ok"
       THEN /\ rows' = Append(rows, AssessmentRow(r, CurFile(r),
                                      kind[r][idx[r]], aiResult[r], t, s))
            /\ results' = [results EXCEPT ![r] =
                             Append(@, SuccessEntry(CurFile(r), aiResult[r]))]
            /\ SetStage(r, "PersistedSuccess")
            /\ idx' = [idx EXCEPT ![r] = @ + 1]
            /\ aiResult' = [aiResult EXCEPT ![r] = NoAssessment]
            /\ UNCHANGED <<pc, response>>
       ELSE /\ response' = [response EXCEPT ![r] =
                              [status |-> 500, error |-> "Assessment failed",
                               success |-> FALSE, results |-> <<>>]]
            /\ pc' = [pc EXCEPT ![r] = "responded"]
            /\ UNCHANGED <<rows, results, stage, idx, aiResult>>
  /\ UNCHANGED <<files, kind, diffAt, frameVars, cIn, cOut, batchCall, tmp, search>>

\* An insert that, when it fails, rolls back the rows the request wrote.
Persist_Rollback(r, store, t, s) ==
  /\ AtStage(r, "Persisting")
  /\ env' = [env EXCEPT ![r][idx[r]] = Log(r, "store", store)]
  /\ Did(r, "store")
  /\ t >= now
  /\ now' = t
  /\ IF store = "ok"
       THEN /\ rows' = Append(rows, AssessmentRow(r, CurFile(r),
                                      kind[r][idx[r]], aiResult[r], t, s))
            /\ results' = [results EXCEPT ![r] =
                             Append(@, SuccessEntry(CurFile(r), aiResult[r]))]
            /\ SetStage(r, "PersistedSuccess")
            /\ idx' = [idx EXCEPT ![r] = @ + 1]
            /\ aiResult' = [aiResult EXCEPT ![r] = NoAssessment]
       ELSE /\ RecordFailure(r, "database error")
            /\ rows' = SelectSeq(rows, LAMBDA row : row.req # r)
  /\ UNCHANGED <<files, pc, kind, response, diffAt, frameVars, cIn, cOut, batchCall,
                 tmp, search>>

\* A handler that pushes the success entry before the insert has returned.
Persist_PushFirst(r, store, t, s) ==
  /\ AtStage(r, "Persisting")
  /\ env' = [env EXCEPT ![r][idx[r]] = Log(r, "store", store)]
  /\ Did(r, "store")
  /\ t >= now
  /\ now' = t
  /\ results' = [results EXCEPT ![r] =
                   Append(@, SuccessEntry(CurFile(r), aiResult[r]))]
  /\ SetStage(r, "PersistedSuccess")
  /\ idx' = [idx EXCEPT ![r] = @ + 1]
  /\ aiResult' = [aiResult EXCEPT ![r] = NoAssessment]
  /\ rows' = IF store = "ok"
               THEN Append(rows, AssessmentRow(r, CurFile(r), kind[r][idx[r]],
                                               aiResult[r], t, s))
               ELSE rows
  /\ UNCHANGED <<files, pc, kind, response, diffAt, frameVars, cIn, cOut, batchCall,
                 tmp, search>>

\* assessmentData is built at time t with the random suffix s, then
\* storage.createAssessment(assessmentData) and the push of the success
\* entry; an error of the insert reaches the catch (fileError) of the file.
Persist(r, store, t, s) ==
  /\ AtStage(r, "Persisting")
  /\ Replays(r, "store", store)
  /\ env' = [env EXCEPT ![r][idx[r]] = Log(r, "store", store)]
  /\ Did(r, "store")
  /\ t >= now
  /\ now' = t
  /\ IF store = "ok"
       THEN /\ rows' = Append(rows, AssessmentRow(r, CurFile(r),
                                      kind[r][idx[r]], aiResult[r], t, s))
            /\ results' = [results EXCEPT ![r] =
                             Append(@, SuccessEntry(CurFile(r), aiResult[r]))]
            /\ SetStage(r, "PersistedSuccess")
            /\ idx' = [idx EXCEPT ![r] = @ + 1]
            /\ aiResult' = [aiResult EXCEPT ![r] = NoAssessment]
       ELSE /\ RecordFailure(r, "database error")
            /\ UNCHANGED rows
  /\ UNCHANGED <<files, pc, kind, response, diffAt, frameVars, cIn, cOut, batchCall,
                 tmp, search>>

\* A response whose success flag says whether some item succeeded.
Respond_SuccessIfAny(r) ==
  /\ pc[r] = "handling"
  /\ idx[r] > Len(files[r])
  /\ response' = [response EXCEPT ![r] =
                    [status |-> 200, error |-> "",
                     success |-> \E k \in 1..Len(results[r]) :
                                   results[r][k].success,
                     results |-> results[r]]]
  /\ pc' = [pc EXCEPT ![r] = "responded"]
  /\ UNCHANGED <<files, idx, kind, stage, env, ops, aiResult, results, rows,
                 diffAt, frameVars, cIn, cOut, batchCall, tmp, now, search>>

\* res.json({ success: true, results }) after the loop
Respond(r) ==
  /\ pc[r] = "handling"
  /\ idx[r] > Len(files[r])
  /\ response' = [response EXCEPT ![r] =
                    [status |-> 200, error |-> "", success |-> TRUE,
                     results |-> results[r]]]
  /\ pc' = [pc EXCEPT ![r] = "responded"]
  /\ UNCHANGED <<files, idx, kind, stage, env, ops, aiResult, results, rows,
                 diffAt, frameVars, cIn, cOut, batchCall, tmp, now, search>>

----------------------------------------------------------------------------
(* assessLaptopDamageBatch: one assessment of several images *)

\* multiImageAnalysisSchema.parse
validateMultiImage(raw) ==
  /\ raw.grade \in Grades
  /\ raw.confidence >= ConfidenceMin
  /\ raw.confidence <= ConfidenceMax
  /\ \A k \in 1..Len(raw.detailedFindings) :
       raw.detailedFindings[k].severity \in Severities
  /\ \A k \in 1..Len(raw.imageAnalyses) :
       /\ raw.imageAnalyses[k].imageIndex >= 1
       /\ \A j \in 1..Len(raw.imageAnalyses[k].detailedFindings) :
            raw.imageAnalyses[k].detailedFindings[j].severity \in Severities

\* The image parts of a model request: for each prepared image its label
\* (`Image ${index + 1}`), the type of its data URL and the image it was
\* prepared from.
ImageParts(images, prepared, ks) ==
  [j \in 1..Len(ks) |->
     [label |-> j, mime |-> prepared[ks[j]].processedMimeType,
      from |-> images[ks[j]]]]

\* The indices 1..n in order.
UpTo(n) == [k \in 1..n |-> k]

\* An assessment that leaves out the images the normalizer rejects and
\* assesses the others.
assessLaptopDamageBatch_SkipFailed(images, reply) ==
  LET prepared == [k \in 1..Len(images) |->
                     prepareImageForVision(images[k].b64len,
                                           images[k].mimeType,
                                           images[k].decodes)]
      kept == SelectSeq(UpTo(Len(images)), LAMBDA k : prepared[k].ok)
      request == [j \in 1..Len(kept) |-> prepared[kept[j]].processedMimeType]
      parts == ImageParts(images, prepared, kept)
  IN IF Len(images) = 0
       THEN [state |-> "returned", ok |-> FALSE,
             error |-> "No images provided for assessment",
             value |-> NoAssessment, images |-> images, requests |-> <<>>,
             prepared |-> <<>>, parts |-> <<>>, reply |-> NoReply]
     ELSE IF reply.kind # "json" \/ ~validateMultiImage(reply)
       THEN [state |-> "returned", ok |-> FALSE,
             error |-> "AI assessment failed for multiple images",
             value |-> NoAssessment, images |-> images,
             requests |-> <<request>>, prepared |-> prepared,
             parts |-> parts,
           reply |-> reply]
     ELSE [state |-> "returned", ok |-> TRUE, error |-> "",
           value |-> [grade |-> reply.grade, confidence |-> reply.confidence,
                      overallCondition |-> "model",
                      damageTypes |-> reply.damageTypes,
                      detailedFindings |-> reply.detailedFindings,
                      framesAnalyzed |-> 0],
           images |-> images, requests |-> <<request>>,
           prepared |-> prepared, parts |-> parts,
           reply |-> reply]

\* assessLaptopDamageBatch(images) when the model answers reply: its result
\* or the error it throws, the outcomes of the normalizer for the images it
\* prepared (one after the other, up to the first that fails), the model
\* requests it sent (each the list of the types of its data URLs), the
\* image parts of the request and the reply to it.
assessLaptopDamageBatch(images, reply) ==
  LET prepared == [k \in 1..Len(images) |->
                     prepareImageForVision(images[k].b64len,
                                           images[k].mimeType,
                                           images[k].decodes)]
      failing == {k \in 1..Len(images) : ~prepared[k].ok}
      done == IF failing = {} THEN prepared
              ELSE SubSeq(prepared, 1, Min(failing))
      request == [k \in 1..Len(images) |-> prepared[k].processedMimeType]
      parts == ImageParts(images, prepared, UpTo(Len(images)))
  IN IF Len(images) = 0
       THEN [state |-> "returned", ok |-> FALSE,
             error |-> "No images provided for assessment",
             value |-> NoAssessment, images |-> images, requests |-> <<>>,
             prepared |-> <<>>, parts |-> <<>>, reply |-> NoReply]
     ELSE IF failing # {}
       THEN [state |-> "returned", ok |-> FALSE,
             error |-> prepared[Min(failing)].error,
             value |-> NoAssessment, images |-> images, requests |-> <<>>,
             prepared |-> done, parts |-> <<>>, reply |-> NoReply]
     ELSE IF reply.kind # "json" \/ ~validateMultiImage(reply)
       THEN [state |-> "returned", ok |-> FALSE,
             error |-> "AI assessment failed for multiple images",
             value |-> NoAssessment, images |-> images,
             requests |-> <<request>>, prepared |-> done, parts |-> parts,
           reply |-> reply]
     ELSE [state |-> "returned", ok |-> TRUE, error |-> "",
           value |-> [grade |-> reply.grade, confidence |-> reply.confidence,
                      overallCondition |-> "model",
                      damageTypes |-> reply.damageTypes,
                      detailedFindings |-> reply.detailedFindings,
                      framesAnalyzed |-> 0],
           images |-> images, requests |-> <<request>>, prepared |-> done,
           parts |-> parts,
           reply |-> reply]

\* A caller invokes assessLaptopDamageBatch.
AssessBatch(images, reply) ==
  /\ batchCall.state = "none"
  /\ \A r \in Reqs : pc[r] = "idle"
  /\ batchCall' = assessLaptopDamageBatch(images, reply)
  /\ UNCHANGED <<files, pc, idx, kind, stage, env, ops, aiResult, results,
                 response, rows, diffAt, frameVars, cIn, cOut, tmp, now, search>>

----------------------------------------------------------------------------
(* GET /api/assessments/search *)

\* like(column, pattern) of the database: % stands for any characters, _ for
\* any one character, every other character for itself.
RECURSIVE LikeAt(_, _)
LikeAt(text, pat) ==
  IF pat = <<>> THEN text = <<>>
  ELSE IF Head(pat) = "%"
    THEN LikeAt(text, Tail(pat)) \/ (text # <<>> /\ LikeAt(Tail(text), pat))
  ELSE IF Head(pat) = "_"
    THEN text # <<>> /\ LikeAt(Tail(text), Tail(pat))
  ELSE text # <<>> /\ Head(text) = Head(pat) /\ LikeAt(Tail(text), Tail(pat))

\* A comparison with a null column is not true.
like(column, pat) == column # Null /\ LikeAt(column, pat)

\* eq(assessments.grade, grade): a value of the grades parameter is the
\* sequence of its parts between commas, "A,B" being <<"A", "B">>.
eqGrade(rowGrade, value) == value = <<rowGrade>>

\* The route: filters.grades is the grades parameter when it is an array
\* (the parameter repeated) and the one-element array of it when it is a
\* string; an absent or empty parameter sets no filter.
searchFilters(query) == [grades |-> query.grades, searchQuery |-> query.q]

\* The rows searchAssessments(filters) selects from table, by their index.
searchAssessments(filters, table) ==
  {k \in 1..Len(table) :
     /\ Len(filters.grades) > 0 =>
          \E g \in 1..Len(filters.grades) :
            eqGrade(table[k].grade, filters.grades[g])
     /\ filters.searchQuery # <<>> =>
          LET searchTerm == <<"%">> \o filters.searchQuery \o <<"%">> IN
            \/ like(table[k].sku, searchTerm)
            \/ like(table[k].brand, searchTerm)
            \/ like(table[k].model, searchTerm)}

\* The values of the grades parameter: absent, grades=A,B, grades=A and
\* grades=A&grades=B.
GradeParams == {<<>>, <<<<"A", "B">>>>, <<<<"A">>>>, <<<<"A">>, <<"B">>>>}

\* The values of q: absent, a suffix, a part of every sku, an underscore and
\* a character of no sku.
TextParams == {<<>>, <<"x">>, <<"O", "-">>, <<"_">>, <<"z">>}

\* A client searches the table; orderBy(desc(assessmentDate)) leaves the
\* order of rows of one date to the database.
Search(grades, q) ==
  /\ search.state = "none"
  /\ \A r \in Reqs : pc[r] = "idle"
  /\ LET query == [grades |-> grades, q |-> q]
         found == searchAssessments(searchFilters(query), rows)
     IN \E order \in [1..Cardinality(found) -> found] :
          /\ \A j, k \in 1..Cardinality(found) :
               /\ j # k => order[j] # order[k]
               /\ j < k => rows[order[j]].assessmentDate
                             >= rows[order[k]].assessmentDate
          /\ search' = [state |-> "returned", query |-> query,
                        results |-> [j \in 1..Cardinality(found) |->
                                       rows[order[j]]]]
  /\ UNCHANGED <<files, pc, idx, kind, stage, env, ops, aiResult, results,
                 response, rows, diffAt, frameVars, cIn, cOut, batchCall, tmp, now>>

----------------------------------------------------------------------------
(* Specifications *)

\* One step of the handling of request r, the model answering from replies,
\* the frame extraction going as one of runs, the clock read at one of
\* instants and the random suffix being one of suffixes.
Handle(r, replies, runs, instants, suffixes) ==
  \/ UploadRejected(r)
  \/ NoFilesUploaded(r)
  \/ StartHandling(r)
  \/ Classify(r)
  \/ Dispatch(r)
  \/ \E d \in {"ok", "fail"} : Normalize(r, d)
  \/ \E ff \in {"yes", "no"}, run \in runs \cup {NotRun} :
       Sample(r, ff, run)
  \/ \E reply \in replies : Assess(r, reply)
  \/ \E st \in {"ok", "throw"}, t \in instants, s \in suffixes :
       Persist(r, st, t, s)
  \/ Respond(r)

\* One request to POST /api/assessments, or one call of the multi-image
\* assessment.  The clock and the random suffix are held fixed here and left
\* free in SpecSku: nothing but the sku of a row depends on them.
Next ==
  \/ pc[1] = "idle" /\ \E fs \in Batches : Submit(1, fs)
  \/ Handle(1, Replies, ExtractionRuns, {MaxClock}, {"x"})
  \/ pc[1] = "idle" /\ \E images \in ImageBatches, reply \in MultiReplies :
                         AssessBatch(images, reply)

Spec == Init /\ [][Next]_vars

\* The classifier applied to one file.
ClassifyInputs ==
  {File(m, "file", e, 2048) :
     m \in {<<"image", "jpeg">>, <<"image", "png">>, <<"image", "heic">>,
            <<"image", "svg+xml">>, <<"video", "mp4">>,
            <<"video", "quicktime">>, <<"video", "x-mp4">>,
            <<"application", "mp4">>, OctetStream, <<"text", "plain">>,
            <<"application", "pdf">>, NoMime,
            <<"IMAGE", "JPEG">>, <<"VIDEO", "MP4">>,
            <<"Application", "Octet-Stream">>},
     e \in {"jpg", "heic", "HEIC", "heif", "mp4", "MP4", "webm", "mov", "avi",
            "mkv", "txt", ""}}

InitClassify ==
  /\ files = [r \in Reqs |-> <<>>]
  /\ pc = [r \in Reqs |-> "idle"]
  /\ idx = [r \in Reqs |-> 0]
  /\ kind = [r \in Reqs |-> <<>>]
  /\ stage = [r \in Reqs |-> <<>>]
  /\ env = [r \in Reqs |-> <<>>]
  /\ ops = [r \in Reqs |-> <<>>]
  /\ aiResult = [r \in Reqs |-> NoAssessment]
  /\ results = [r \in Reqs |-> <<>>]
  /\ response = [r \in Reqs |-> NoResponse]
  /\ rows = <<>>
  /\ diffAt = 0
  /\ cIn \in ClassifyInputs
  /\ cOut = NoKind
  /\ batchCall = NoBatchCall
  /\ tmp = {}
  /\ now = 0
  /\ search = NoSearch
  /\ disk = {}
  /\ call = [c \in Reqs |-> NoCall]
  /\ probe = NoProbe

\* The handler computes isImage and isVideo of the file and takes the branch;
\* the same file sent to each of the two endpoints.
ClassifyFile ==
  /\ cOut = NoKind
  /\ cOut' = [isImage |-> isImage(cIn), isVideo |-> isVideo(cIn),
              kind |-> classify(cIn), admitted |-> fileFilter(cIn),
              batchAdmitted |-> fileFilterMultiple(cIn),
              batchKind |-> classifyBatch(cIn)]
  /\ UNCHANGED <<files, pc, idx, kind, stage, env, ops, aiResult, results,
                 response, rows, diffAt, frameVars, cIn, batchCall, tmp, now, search>>

NextClassify == ClassifyFile

SpecClassify == InitClassify /\ [][NextClassify]_vars

\* One request whose assessmentData are built at any instants of the clock
\* and with any random suffixes.
SkuFiles == {JpegPhoto, Mp4Clip, TextAsJpg}

SkuBatches == SeqsUpTo(SkuFiles, MaxFiles)

SkuReplies == {Reply("neterr", "", 0, "Low"), Reply("json", "B", 5, "Low")}

SkuRuns == {Run("ok", "ok", "ok", NumFrames, {})}

NextSku ==
  \/ pc[1] = "idle" /\ \E fs \in SkuBatches : Submit(1, fs)
  \/ Handle(1, SkuReplies, SkuRuns, 0..MaxClock, Suffixes)

SpecSku == Init /\ [][NextSku]_vars

\* One request in which the decoder may never exit.  A continuation of the
\* handler runs once the promise it awaits has settled: the event loop is
\* fair to the steps of the handler.
LiveFiles == {JpegPhoto, Mp4Clip, TextAsJpg}

LiveBatches == SeqsUpTo(LiveFiles, MaxFiles)

LiveReplies == {Reply("neterr", "", 0, "Low"), Reply("json", "B", 5, "Low")}

LiveRuns ==
  {Run("ok", "ok", "ok", NumFrames, {}), Run("ok", "ok", "throw", 0, {}),
   Run("ok", "ok", "hang", 1, {})}

HandleLive == Handle(1, LiveReplies, LiveRuns, {MaxClock}, {"x"})

NextLive ==
  \/ pc[1] = "idle" /\ \E fs \in LiveBatches : Submit(1, fs)
  \/ HandleLive

SpecLive == Init /\ [][NextLive]_vars /\ WF_vars(HandleLive)

\* extractVideoFrames step by step, for the videos of two requests whose
\* calls overlap.  A file of the temporary directory is its path and the
\* call whose video its bytes come from; video_<t>.mp4 is VideoPath(t) and
\* frame_<t>_<k>.jpg is FramePath(t, k).
VideoPath(t) == [file |-> "video", t |-> t, k |-> 0]

FramePath(t, k) == [file |-> "frame", t |-> t, k |-> k]

Exists(p) == \E e \in disk : e.path = p

Content(p) == (CHOOSE e \in disk : e.path = p).owner

\* fs.writeFile and the output of ffmpeg replace the file of the same path.
Written(d, ps, c) ==
  {e \in d : e.path \notin ps} \cup {[path |-> p, owner |-> c] : p \in ps}

\* fs.unlink(p).catch(() => {})
Unlinked(d, p) == {e \in d : e.path # p}

CallAt(c, at) == call[c].at = at

\* The call starts: videoPath is named after Date.now() (t1) and
\* framePattern after the next Date.now() (t2).
BeginExtract(c, t1, t2) ==
  /\ CallAt(c, "idle")
  /\ \A r \in Reqs : pc[r] = "idle"
  /\ t1 >= now
  /\ t2 >= t1
  /\ now' = t2
  /\ call' = [call EXCEPT ![c] = [NoCall EXCEPT !.at = "started",
                                                !.videoPath = t1,
                                                !.framePattern = t2]]
  /\ UNCHANGED <<reqVars, cIn, cOut, batchCall, tmp, search, disk, probe>>

\* await fs.writeFile(videoPath, videoBuffer); when it throws, the catch
\* unlinks videoPath and the call returns without success.
WriteVideo(c, outcome) ==
  /\ CallAt(c, "started")
  /\ IF outcome = "ok"
       THEN /\ disk' = Written(disk, {VideoPath(call[c].videoPath)}, c)
            /\ call' = [call EXCEPT ![c].at = "written"]
       ELSE /\ disk' = Unlinked(disk, VideoPath(call[c].videoPath))
            /\ call' = [call EXCEPT ![c].at = "returned"]
  /\ UNCHANGED <<reqVars, cIn, cOut, batchCall, tmp, now, search, probe>>

\* getVideoMetadata (which changes no file and catches its errors) and
\* await execAsync(ffmpegCommand): ffmpeg reads the file at videoPath and
\* writes n frames of it, or fails, as it does when the file is not there;
\* then the catch unlinks videoPath and the call returns without success.
Decode(c, outcome, n) ==
  /\ CallAt(c, "written")
  /\ outcome = "ok" => Exists(VideoPath(call[c].videoPath))
  /\ outcome = "throw" => n = 0
  /\ IF outcome = "ok"
       THEN /\ disk' = Written(disk,
                         {FramePath(call[c].framePattern, k) : k \in 1..n},
                         Content(VideoPath(call[c].videoPath)))
            /\ call' = [call EXCEPT ![c].at = "reading", ![c].next = 1]
       ELSE /\ disk' = Unlinked(disk, VideoPath(call[c].videoPath))
            /\ call' = [call EXCEPT ![c].at = "returned"]
  /\ UNCHANGED <<reqVars, cIn, cOut, batchCall, tmp, now, search, probe>>

\* One turn of the loop over the frames: fs.readFile(framePath), push and
\* unlink; a frame that cannot be read is skipped.
ReadFrame(c) ==
  /\ CallAt(c, "reading")
  /\ call[c].next <= NumFrames
  /\ LET p == FramePath(call[c].framePattern, call[c].next) IN
       IF Exists(p)
         THEN /\ call' = [call EXCEPT ![c].frames = Append(@, Content(p)),
                                      ![c].next = @ + 1]
              /\ disk' = Unlinked(disk, p)
         ELSE /\ call' = [call EXCEPT ![c].next = @ + 1]
              /\ UNCHANGED disk
  /\ UNCHANGED <<reqVars, cIn, cOut, batchCall, tmp, now, search, probe>>

\* After the loop: unlink videoPath and return the frames, without success
\* when there is none.
FinishExtract(c) ==
  /\ CallAt(c, "reading")
  /\ call[c].next > NumFrames
  /\ disk' = Unlinked(disk, VideoPath(call[c].videoPath))
  /\ call' = [call EXCEPT ![c].at = "returned",
                          ![c].success = Len(call[c].frames) # 0]
  /\ UNCHANGED <<reqVars, cIn, cOut, batchCall, tmp, now, search, probe>>

\* The numbers of frames ffmpeg writes.
FrameCounts == {0, 1, NumFrames}

NextFrames ==
  \E c \in Reqs :
    \/ \E t1, t2 \in 0..MaxClock : BeginExtract(c, t1, t2)
    \/ \E outcome \in {"ok", "throw"} : WriteVideo(c, outcome)
    \/ \E outcome \in {"ok", "throw"}, n \in FrameCounts :
         Decode(c, outcome, n)
    \/ ReadFrame(c)
    \/ FinishExtract(c)

SpecFrames == Init /\ [][NextFrames]_vars

\* getVideoMetadata applied to one output of ffprobe.
\* eval(text): the value of the expression, the error it throws and the
\* effects of running it.
eval(text) ==
  CASE text.form = "fraction" ->
         [threw |-> FALSE,
          value |-> IF text.d # 0 THEN Num(text.n, text.d)
                    ELSE IF text.n # 0 THEN Infinity
                    ELSE NaN,
          effects |-> {}]
    [] text.form = "number" ->
         [threw |-> FALSE, value |-> Num(text.n, 1), effects |-> {}]
    [] text.form = "word" ->
         [threw |-> TRUE, value |-> NaN, effects |-> {}]
    [] text.form = "script" ->
         [threw |-> FALSE, value |-> Num(text.n, 1),
          effects |-> {text.effect}]

\* value || 0
OrZero(v) == IF v.is = "nan" \/ (v.is = "number" /\ v.n = 0) THEN Num(0, 1) ELSE v

\* getVideoMetadata: the metadata it returns and the effects of the call;
\* every error, of ffprobe, of a missing video stream or of eval, is caught
\* and answered with zeros.
getVideoMetadata(out) ==
  IF out.exec = "throw" \/ ~out.hasVideo
    THEN [metadata |-> NoMetadata, effects |-> {}]
  ELSE LET e == eval(out.r_frame_rate) IN
    IF e.threw
      THEN [metadata |-> NoMetadata, effects |-> e.effects]
    ELSE [metadata |-> [duration |-> out.duration, width |-> out.width,
                        height |-> out.height, fps |-> OrZero(e.value)],
          effects |-> e.effects]

FrameRateTexts ==
  {Fraction(30, 1), Fraction(30000, 1001), Fraction(0, 0), Fraction(0, 1),
   Fraction(25, 0), Numeral(30), Word, Script("process.exit", 0),
   Script("global assignment", 30)}

ProbeOutputs ==
  {ProbeOutput(x, v, dur, w, h, rate) :
     x \in {"ok", "throw"}, v \in BOOLEAN, dur \in {0, 12}, w \in {1920},
     h \in {1080}, rate \in FrameRateTexts}

InitProbe ==
  /\ files = [r \in Reqs |-> <<>>]
  /\ pc = [r \in Reqs |-> "idle"]
  /\ idx = [r \in Reqs |-> 0]
  /\ kind = [r \in Reqs |-> <<>>]
  /\ stage = [r \in Reqs |-> <<>>]
  /\ env = [r \in Reqs |-> <<>>]
  /\ ops = [r \in Reqs |-> <<>>]
  /\ aiResult = [r \in Reqs |-> NoAssessment]
  /\ results = [r \in Reqs |-> <<>>]
  /\ response = [r \in Reqs |-> NoResponse]
  /\ rows = <<>>
  /\ diffAt = 0
  /\ cIn = NoFileIn
  /\ cOut = NoKind
  /\ batchCall = NoBatchCall
  /\ tmp = {}
  /\ now = 0
  /\ search = NoSearch
  /\ disk = {}
  /\ call = [c \in Reqs |-> NoCall]
  /\ probe \in {[NoProbe EXCEPT !.out = o] : o \in ProbeOutputs}

\* extractVideoFrames calls getVideoMetadata(videoPath).
Probe ==
  /\ probe.state = "none"
  /\ LET m == getVideoMetadata(probe.out) IN
       probe' = [probe EXCEPT !.state = "returned", !.metadata = m.metadata,
                              !.effects = m.effects]
  /\ UNCHANGED <<reqVars, cIn, cOut, batchCall, tmp, now, search, disk, call>>

NextProbe == Probe

SpecProbe == InitProbe /\ [][NextProbe]_vars

\* The search over a table the uploads have filled: each row is the row of an
\* image of a one-file request, as Persist writes it, and the rows are in
\* the order of their insertion.
StoredRow(g, t, s) ==
  [req |-> 1, item |-> 1, originalFileName |-> JpegPhoto.originalname,
   sku |-> Sku(t, s), brand |-> Null, model |-> Null, assessmentDate |-> t,
   grade |-> g, confidence |-> 5, damageTypes |-> <<"Scratches">>,
   detailedFindings |-> ModelFindings("Low"), fileType |-> "image",
   mimeType |-> JpegPhoto.mimetype, fileSize |-> JpegPhoto.size]

StoredRows ==
  {StoredRow(g, t, s) : g \in {"A", "B", "C"}, t \in 0..MaxClock,
                        s \in Suffixes}

Tables ==
  {table \in SeqsUpTo(StoredRows, MaxFiles) :
     \A j, k \in 1..Len(table) :
       j < k => table[j].assessmentDate <= table[k].assessmentDate}

InitSearch ==
  /\ files = [r \in Reqs |-> <<>>]
  /\ pc = [r \in Reqs |-> "idle"]
  /\ idx = [r \in Reqs |-> 0]
  /\ kind = [r \in Reqs |-> <<>>]
  /\ stage = [r \in Reqs |-> <<>>]
  /\ env = [r \in Reqs |-> <<>>]
  /\ ops = [r \in Reqs |-> <<>>]
  /\ aiResult = [r \in Reqs |-> NoAssessment]
  /\ results = [r \in Reqs |-> <<>>]
  /\ response = [r \in Reqs |-> NoResponse]
  /\ rows \in Tables
  /\ diffAt = 0
  /\ cIn = NoFileIn
  /\ cOut = NoKind
  /\ batchCall = NoBatchCall
  /\ tmp = {}
  /\ now = MaxClock
  /\ search = NoSearch
  /\ disk = {}
  /\ call = [c \in Reqs |-> NoCall]
  /\ probe = NoProbe

NextSearch == \E grades \in GradeParams, q \in TextParams : Search(grades, q)

SpecSearch == InitSearch /\ [][NextSearch]_vars

\* Two requests one after the other: request 2 posts the batch of request 1
\* with one file replaced, and the model, the decoder and the store behave for
\* its other files as they did in request 1.  The clock and the random
\* suffix are held fixed: no outcome depends on them.
IsoBatches == SeqsUpTo(IsoFiles, MaxFiles)

IsoReplies ==
  {Reply("neterr", "", 0, "Low"), Reply("json", "B", 5, "Low"),
   Reply("json", "E", 5, "Low")}

IsoRuns ==
  {Run("ok", "ok", "throw", 1, {}), Run("ok", "ok", "ok", 0, {}),
   Run("ok", "ok", "ok", 1, {})}

StartTwin(d, f) ==
  /\ Done(1)
  /\ pc[2] = "idle"
  /\ diffAt = 0
  /\ d \in 1..Len(files[1])
  /\ f # files[1][d]
  /\ diffAt' = d
  /\ files' = [files EXCEPT ![2] = [files[1] EXCEPT ![d] = f]]
  /\ pc' = [pc EXCEPT ![2] = "parsing"]
  /\ UNCHANGED <<idx, kind, stage, env, ops, aiResult, results, response,
                 rows, frameVars, cIn, cOut, batchCall, tmp, now, search>>

NextIso ==
  \/ pc[1] = "idle" /\ \E fs \in IsoBatches : Submit(1, fs)
  \/ Handle(1, IsoReplies, IsoRuns, {MaxClock}, {"x"})
  \/ \E d \in 1..MaxFiles, f \in IsoFiles : StartTwin(d, f)
  \/ Handle(2, IsoReplies, IsoRuns, {MaxClock}, {"x"})

SpecIso == Init /\ [][NextIso]_vars

----------------------------------------------------------------------------
(* Properties of the aggregate response *)

Is2xx(st) == st >= 200 /\ st < 300

Items(r) == 1..Len(files[r])

Oversize(f) == f.size > UploadFileSizeLimit

\* Upload parsing has a reason to refuse the batch: a file above the size
\* limit, a file the upload filter does not admit, or too many files.
Refusable(fs) ==
  \/ Len(fs) > UploadMaxCount
  \/ \E k \in 1..Len(fs) : Oversize(fs[k]) \/ ~fileFilter(fs[k])

\* The entries of the response name the submitted files, one each, in order.
OneEntryPerFile(r) ==
  /\ Len(response[r].results) = Len(files[r])
  /\ \A i \in Items(r) :
       response[r].results[i].originalFileName = files[r][i].originalname

NoWorkDone(r) ==
  /\ \A i \in 1..Len(ops[r]) : ops[r][i] = <<>>
  /\ \A k \in 1..Len(rows) : rows[k].req # r

\* The declared type is neither an image nor a video type and no rule of the
\* classifier rescues the file.
NeitherImageNorVideo(f) ==
  /\ f.mimetype[1] \notin {"image", "video"}
  /\ classify(f) = "Unsupported"

C5_RefusedAtUploadParsing ==
  (Done(1) /\ Refusable(files[1])) =>
    /\ response[1].status \in {400, 413}
    /\ (\A k \in Items(1) : ~Oversize(files[1][k])) => response[1].status = 400
    /\ (Len(files[1]) <= UploadMaxCount
          /\ \A k \in Items(1) : fileFilter(files[1][k]))
         => response[1].status = 413
    /\ response[1].results = <<>>
    /\ NoWorkDone(1)
    /\ kind[1] = <<>>

C5_Witness ==
  /\ Done(1)
  /\ files[1] = <<JpegPhoto, HugeJpeg>>
  /\ response[1].status = 413

----------------------------------------------------------------------------
(* Properties of the per-file outcomes *)

Terminal(r, i) == stage[r][i] \in {"PersistedSuccess", "RecordedFailure"}

Started(r) == 1..Len(stage[r])

RowsOf(r, i) == {k \in 1..Len(rows) : rows[k].req = r /\ rows[k].item = i}

\* Frame extraction failed for video item i: the decoder is unavailable, it
\* throws, or no frame could be read.
ExtractionFailed(r, i) ==
  /\ kind[r][i] = "Video"
  /\ \/ env[r][i].ffmpeg = "no"
     \/ env[r][i].decoder = "throw"
     \/ (env[r][i].decoder = "ok" /\ env[r][i].nRead = 0)

IsDegraded(a) ==
  /\ a.grade = "C"
  /\ a.confidence = 3
  /\ a.damageTypes = <<"Video Processing Error">>
  /\ Len(a.detailedFindings) = 1
  /\ a.detailedFindings[1].description = "Manual review required"

\* C6 as stated: a video whose frame extraction fails always ends as a
\* Success entry carrying the degraded assessment, never as a Failure.
C6_AsStated ==
  \A i \in Started(1) :
    (ExtractionFailed(1, i) /\ Terminal(1, i)) =>
      /\ results[1][i].success
      /\ IsDegraded(results[1][i].assessment)

\* C6, amended: a video whose frame extraction fails ends as a Success entry
\* carrying the degraded assessment (grade C, confidence 0.3, damageTypes
\* ["Video Processing Error"], one finding requiring manual review), unless
\* the Record Store write of that item throws: then, and only then, its entry
\* is a Failure.
C6_DegradedSuccess ==
  \A i \in Started(1) :
    (ExtractionFailed(1, i) /\ Terminal(1, i)) =>
      IF env[1][i].store = "ok"
        THEN /\ results[1][i].success
             /\ IsDegraded(results[1][i].assessment)
             /\ \A k \in RowsOf(1, i) : IsDegraded(rows[k])
        ELSE env[1][i].store = "throw" /\ ~results[1][i].success

C6_Witness ==
  \E i \in Started(1) :
    /\ env[1][i].decoder = "throw"
    /\ stage[1][i] = "PersistedSuccess"
    /\ IsDegraded(results[1][i].assessment)

\* C7: when the Record Store write throws for an item, its entry is a Failure
\* without assessment and no row exists for it; every item whose write
\* succeeded is a Success with its row, which stays in the store whatever
\* happens to later items; the response lists them all.
C7_StoreFailureIsolated ==
  /\ \A i \in Started(1) :
       /\ env[1][i].store = "throw" =>
            /\ stage[1][i] = "RecordedFailure"
            /\ ~results[1][i].success
            /\ results[1][i].assessment = NoAssessment
            /\ RowsOf(1, i) = {}
       /\ env[1][i].store = "ok" =>
            /\ stage[1][i] = "PersistedSuccess"
            /\ results[1][i].success
            /\ Cardinality(RowsOf(1, i)) = 1
  /\ (Done(1) /\ Started(1) # {}) =>
       /\ Is2xx(response[1].status)
       /\ response[1].results = results[1]

C7_Witness ==
  /\ Done(1)
  /\ Len(stage[1]) = 2
  /\ env[1][1].store = "ok"
  /\ env[1][2].store = "throw"
  /\ response[1].results[1].success
  /\ ~response[1].results[2].success
  /\ RowsOf(1, 1) # {}

ValidAssessment(a) ==
  /\ a.grade \in {"A", "B", "C", "D"}
  /\ a.confidence >= 0
  /\ a.confidence <= 10

\* C8: every assessment of a Success entry, of a response, of a row of the
\* store or returned by the multi-image call has a grade among A, B, C, D and
\* a confidence in [0, 1]; a reply with another grade or confidence never
\* reaches them.
C8_OnlyValidatedAssessments ==
  /\ \A i \in 1..Len(results[1]) :
       results[1][i].success => ValidAssessment(results[1][i].assessment)
  /\ \A i \in 1..Len(response[1].results) :
       response[1].results[i].success =>
         ValidAssessment(response[1].results[i].assessment)
  /\ \A k \in 1..Len(rows) : ValidAssessment(rows[k])
  /\ stage[1] # <<>> =>
       \A i \in Started(1) :
         stage[1][i] = "Persisting" => ValidAssessment(aiResult[1])
  /\ batchCall.ok => ValidAssessment(batchCall.value)

C8_Witness ==
  /\ Done(1)
  /\ Len(stage[1]) = 2
  /\ kind[1][1] = "Image"
  /\ env[1][1].reply.grade = "E"
  /\ kind[1][2] = "Video"
  /\ env[1][2].reply.confidence = 12
  /\ env[1][2].store = "ok"

ModelFailed(r, i) ==
  /\ env[r][i].reply.kind # "na"
  /\ \/ env[r][i].reply.kind # "json"
     \/ ~ValidAssessment(env[r][i].reply)
     \/ \E k \in 1..Len(env[r][i].reply.detailedFindings) :
          env[r][i].reply.detailedFindings[k].severity
            \notin {"Low", "Medium", "High"}

\* C9: an item, image or video, whose model call fails or whose reply fails
\* JSON parsing or schema validation ends as a Failure entry with a reason;
\* no assessment is returned or persisted for it.
C9_ModelFailureIsFailure ==
  \A i \in Started(1) :
    (ModelFailed(1, i) /\ Terminal(1, i)) =>
      /\ ~results[1][i].success
      /\ results[1][i].error # ""
      /\ RowsOf(1, i) = {}

----------------------------------------------------------------------------
(* Failure isolation between the files of a batch *)

\* Requests 1 and 2 are answered, their batches differ in file diffAt only,
\* and for every other file the model, the decoder and the store behaved the
\* same in both.
TwinsDone ==
  /\ Done(1)
  /\ Done(2)
  /\ diffAt # 0
  /\ \A j \in (1..Len(env[1])) \cap (1..Len(env[2])) :
       j # diffAt => env[1][j] = env[2][j]

\* File j has the same outcome in both requests: an entry in both, with the
\* same tag and the same assessment, or in neither, and a row in both or in
\* neither.
SameOutcome(j) ==
  /\ (Len(response[1].results) >= j) <=> (Len(response[2].results) >= j)
  /\ Len(response[1].results) >= j =>
       response[1].results[j] = response[2].results[j]
  /\ (RowsOf(1, j) = {}) <=> (RowsOf(2, j) = {})

----------------------------------------------------------------------------
(* Classification *)

LowerExt(f) == Lower(f.originalname.ext)

\* The kind the stated precedence gives: a declared image/ or video/ type
\* decides, then octet-stream with a known extension, else Unsupported.
StatedKind(f) ==
  IF f.mimetype[1] = "image" THEN "Image"
  ELSE IF f.mimetype[1] = "video" THEN "Video"
  ELSE IF f.mimetype = <<"application", "octet-stream">>
            /\ LowerExt(f) \in {"heic", "heif"} THEN "Image"
  ELSE IF f.mimetype = <<"application", "octet-stream">>
            /\ LowerExt(f) \in {"mp4", "webm", "mov", "avi", "mkv"}
    THEN "Video"
  ELSE "Unsupported"

Classified == cOut # NoKind

\* C10 as stated: the kind follows the stated precedence, everything that is
\* neither a declared image/video type nor octet-stream with a known
\* extension being Unsupported.
C10_AsStated ==
  Classified =>
    /\ cOut.kind = StatedKind(cIn)
    /\ ~(cOut.isImage /\ cOut.isVideo)

\* C10, amended: classification returns exactly one of Image, Video,
\* Unsupported and follows the stated precedence with one more video type:
\* the declared type application/mp4 gives Video whatever the file name.  No
\* input is classified as both Image and Video.
C10_ClassificationPrecedence ==
  Classified =>
    /\ cOut.kind \in {"Image", "Video", "Unsupported"}
    /\ cOut.kind =
         IF cIn.mimetype = <<"application", "mp4">> THEN "Video"
         ELSE StatedKind(cIn)
    /\ ~(cOut.isImage /\ cOut.isVideo)
    /\ cOut.isImage <=> cOut.kind = "Image"
    /\ cOut.isVideo <=> cOut.kind = "Video"

C10_Witness ==
  /\ Classified
  /\ cIn.mimetype = <<"application", "octet-stream">>
  /\ cIn.originalname.ext = "heic"
  /\ cOut.kind = "Image"

----------------------------------------------------------------------------
(* Letter case in classification *)

\* The file with its declared type and its extension in lower case.
CaseFolded(f) ==
  [f EXCEPT !.mimetype = <<Lower(f.mimetype[1]), Lower(f.mimetype[2])>>,
            !.originalname.ext = Lower(f.originalname.ext)]

\* C11: classification is case-insensitive on both inputs: a file is given
\* the kind of the same file with its declared MIME type and its extension
\* written in lower case.
C11_CaseInsensitive ==
  Classified => cOut.kind = classify(CaseFolded(cIn))

----------------------------------------------------------------------------
(* Image normalization *)

\* The images of request r that went through the normalizer.
\* The calls made for item i of request r.
Calls(r, i) == {ops[r][i][k] : k \in 1..Len(ops[r][i])}

Normalized(r) == {i \in Started(r) : "normalize" \in Calls(r, i)}

\* C12: normalizing an empty or undersized buffer fails without a decode
\* attempt, every successful normalization returns the canonical type
\* image/jpeg whatever the declared format, and the data URL of every model
\* request made for an image declares image/jpeg.
C12_CanonicalOutput ==
  /\ \A k \in 1..Len(batchCall.prepared) :
       /\ batchCall.images[k].b64len < MinBase64Length =>
            ~batchCall.prepared[k].ok /\ ~batchCall.prepared[k].decoded
       /\ batchCall.prepared[k].ok =>
            batchCall.prepared[k].processedMimeType = CanonicalMime
  /\ \A q \in 1..Len(batchCall.requests) :
       \A k \in 1..Len(batchCall.requests[q]) :
         batchCall.requests[q][k] = CanonicalMime
  /\ \A i \in Normalized(1) :
       /\ Base64Length(files[1][i].size) < MinBase64Length =>
            env[1][i].decode = "na" /\ stage[1][i] = "RecordedFailure"
       /\ stage[1][i] \in {"Assessing", "Persisting", "PersistedSuccess"} =>
            env[1][i].prepared = CanonicalMime
       /\ "model" \in Calls(1, i) => env[1][i].dataUrl = CanonicalMime

C12_Witness ==
  /\ batchCall.state = "returned"
  /\ Len(batchCall.images) = 2
  /\ batchCall.images[1].mimeType = <<"image", "png">>
  /\ batchCall.images[2].b64len = 0
  /\ batchCall.prepared[1].ok
  /\ batchCall.prepared[1].processedMimeType = CanonicalMime
  /\ ~batchCall.prepared[2].ok
  /\ ~batchCall.prepared[2].decoded
  /\ batchCall.requests = <<>>

----------------------------------------------------------------------------
(* Normalization errors *)

UnsupportedFormatError == "Image format is not supported"

\* The errors raised for empty or undersized data and for decode failures.
InvalidImageErrors ==
  {"Image data is too small or corrupted", "Invalid image data format",
   "Invalid or corrupted image file"}

OutsideAllowList(m) ==
  <<Lower(m[1]), Lower(m[2])>> \notin
    {<<"image", s>> : s \in {"jpeg", "jpg", "png", "gif", "webp", "heic",
                             "heif"}}

\* C13: an image whose data passes the size check and whose declared type is
\* outside the allow-list fails with the unsupported-format error, which
\* names the declared type and is raised before any decode; that error is
\* raised for no other cause, empty or undersized data and decode failures
\* raising an invalid-image error; after a failed normalization no model
\* request is made for the image.
C13_UnsupportedFormatReported ==
  /\ \A k \in 1..Len(batchCall.prepared) :
       LET img == batchCall.images[k]
           out == batchCall.prepared[k]
       IN /\ (img.b64len >= MinBase64Length /\ OutsideAllowList(img.mimeType))
               => /\ ~out.ok
                  /\ out.error = UnsupportedFormatError
                  /\ out.offending = img.mimeType
                  /\ ~out.decoded
          /\ out.error = UnsupportedFormatError =>
               OutsideAllowList(img.mimeType)
          /\ (img.b64len < MinBase64Length
                \/ (~OutsideAllowList(img.mimeType) /\ ~img.decodes))
               => out.error \in InvalidImageErrors
          /\ ~out.ok => batchCall.requests = <<>>
  /\ \A i \in Normalized(1) :
       /\ OutsideAllowList(files[1][i].mimetype) =>
            /\ stage[1][i] = "RecordedFailure"
            /\ results[1][i].error = UnsupportedFormatError
            /\ env[1][i].decode = "na"
       /\ env[1][i].decode = "fail" =>
            /\ stage[1][i] = "RecordedFailure"
            /\ results[1][i].error \in InvalidImageErrors
       /\ (OutsideAllowList(files[1][i].mimetype) \/ env[1][i].decode = "fail")
            => /\ "model" \notin Calls(1, i)
               /\ RowsOf(1, i) = {}

C13_Witness ==
  /\ batchCall.state = "returned"
  /\ Len(batchCall.images) = 2
  /\ batchCall.images[1].mimeType = <<"image", "jpeg">>
  /\ batchCall.prepared[1].ok
  /\ batchCall.images[2].mimeType = <<"image", "bmp">>
  /\ batchCall.prepared[2].error = UnsupportedFormatError
  /\ batchCall.prepared[2].offending = <<"image", "bmp">>
  /\ batchCall.requests = <<>>

----------------------------------------------------------------------------
(* Frame extraction *)

\* The items of request r for which extractVideoFrames was called.
Sampled(r) == {i \in Started(r) : "sample" \in Calls(r, i)}

\* C14: when extractVideoFrames reports success its frames are not empty;
\* a frame file that cannot be read is skipped without failing the call and
\* fewer frames than requested is still a success; with zero frames read the
\* call reports failure; and the video assessor sends no model request when
\* the extraction failed or gave zero frames.
C14_SuccessHasFrames ==
  \A i \in Sampled(1) :
    LET run == env[1][i].run
        x == env[1][i].frameResult
        read == {k \in 1..run.written : k \notin run.unreadable}
    IN /\ x.success => x.frames >= 1
       /\ (run.write = "ok" /\ run.ffmpeg = "ok") =>
            /\ x.frames = Cardinality(read)
            /\ x.success <=> read # {}
       /\ (~x.success \/ x.frames = 0) => "model" \notin Calls(1, i)

C14_Witness ==
  /\ Len(stage[1]) = 2
  /\ Terminal(1, 2)
  /\ env[1][1].run = Run("ok", "ok", "ok", 1, {1})
  /\ ~env[1][1].frameResult.success
  /\ "model" \notin Calls(1, 1)
  /\ env[1][2].run = Run("ok", "ok", "ok", NumFrames, {2})
  /\ env[1][2].frameResult.success
  /\ env[1][2].frameResult.frames = NumFrames - 1
  /\ "model" \in Calls(1, 2)

\* C15: when extractVideoFrames has returned, on every exit path, neither
\* the temporary source file nor any temporary frame file of the call exists.
C15_TempFilesRemoved ==
  \A i \in Sampled(1) :
    \A f \in tmp : ~(f.req = 1 /\ f.item = i)

----------------------------------------------------------------------------
(* Generated identifiers *)

\* C17: the sku values of the rows written by one request (or by two
\* requests) are pairwise distinct.
C17_SkusDistinct ==
  \A j, k \in 1..Len(rows) : j # k => rows[j].sku # rows[k].sku

----------------------------------------------------------------------------
(* Search *)

\* text contains q.
Contains(text, q) ==
  /\ text # Null
  /\ \E i \in 1..(Len(text) - Len(q) + 1) : SubSeq(text, i, i + Len(q) - 1) = q

\* The grades a grades parameter asks for.
RequestedGrades(grades) ==
  UNION {{grades[g][k] : k \in 1..Len(grades[g])} : g \in 1..Len(grades)}

\* The rows that satisfy the query as stated.
StatedMatches(query) ==
  {k \in 1..Len(rows) :
     /\ query.grades # <<>> => rows[k].grade \in RequestedGrades(query.grades)
     /\ query.q # <<>> =>
          \/ Contains(rows[k].sku, query.q)
          \/ Contains(rows[k].brand, query.q)
          \/ Contains(rows[k].model, query.q)}

\* C16: the search returns exactly the persisted rows whose grade is one of
\* the requested grades and whose sku, brand or model contains q, newest
\* first; with no filter it returns all rows.
C16_SearchReturnsMatches ==
  search.state = "returned" =>
    /\ {search.results[j] : j \in 1..Len(search.results)}
         = {rows[k] : k \in StatedMatches(search.query)}
    /\ \A j, k \in 1..Len(search.results) :
         j < k => search.results[j].assessmentDate
                    >= search.results[k].assessmentDate
    /\ search.query = NoQuery => Len(search.results) = Len(rows)

----------------------------------------------------------------------------
(* Early rejection *)

EarlyErrors ==
  {"Invalid file type", "Image file appears to be corrupted or empty."}

\* Item i of request r is past the branches on its kind.
Dispatched(r, i) == stage[r][i] \notin {"Received", "Classified"}

\* Nothing but the classification was done for item i of request r.
OnlyClassified(r, i) ==
  /\ Calls(r, i) \subseteq {"classify"}
  /\ env[r][i] = NoEnv
  /\ RowsOf(r, i) = {}
  /\ \A f \in tmp : ~(f.req = r /\ f.item = i)

----------------------------------------------------------------------------
(* Persist before respond *)

\* The entries of request r so far have one row each when they are a
\* Success and none when they are a Failure.
RowsMatchEntries(r) ==
  \A i \in 1..Len(results[r]) :
    IF results[r][i].success
      THEN /\ Cardinality(RowsOf(r, i)) = 1
           /\ \A k \in RowsOf(r, i) :
                /\ rows[k].grade = results[r][i].assessment.grade
                /\ rows[k].originalFileName = results[r][i].originalFileName
      ELSE RowsOf(r, i) = {}

\* Every row of request r belongs to a Success entry of it.
RowsHaveEntries(r) ==
  \A k \in 1..Len(rows) :
    rows[k].req = r =>
      /\ rows[k].item <= Len(results[r])
      /\ results[r][rows[k].item].success

\* A step leaves the rows written alone and adds at most one.
OnlyInserts ==
  \/ rows' = rows
  \/ \E row \in {rows'[Len(rows')]} : rows' = Append(rows, row)

\* C19: a Success entry is added only once the insert of its item has
\* returned: at every moment, and so at the end of the request, the rows of
\* the request and its Success entries (degraded ones included) correspond
\* one to one and a Failure entry has no row; and the pipeline only inserts
\* rows, never changing or removing one.
C19_PersistBeforeRespond ==
  /\ [](RowsMatchEntries(1) /\ RowsHaveEntries(1))
  /\ [][OnlyInserts]_vars

C19_Witness ==
  /\ Done(1)
  /\ Len(response[1].results) = 2
  /\ response[1].results[1].success
  /\ IsDegraded(response[1].results[1].assessment)
  /\ Cardinality(RowsOf(1, 1)) = 1
  /\ ~response[1].results[2].success
  /\ env[1][2].store = "throw"
  /\ RowsOf(1, 2) = {}
  /\ Len(rows) = 1

----------------------------------------------------------------------------
(* No retry *)

\* How many times op was called for item i of request r.
Times(r, i, op) == Cardinality({k \in 1..Len(ops[r][i]) : ops[r][i][k] = op})

\* C20: within one request each item causes at most one normalization, one
\* frame extraction, one model invocation and one store insert, whatever
\* fails; the multi-image call sends at most one model request.
C20_NoRetry ==
  /\ \A i \in Started(1) :
       /\ \A op \in {"classify", "normalize", "sample", "model", "store"} :
            Times(1, i, op) <= 1
       /\ Cardinality(RowsOf(1, i)) <= 1
  /\ Len(batchCall.requests) <= 1

C20_Witness ==
  /\ Done(1)
  /\ Len(stage[1]) = 2
  /\ kind[1][1] = "Image"
  /\ ModelFailed(1, 1)
  /\ ops[1][1] = <<"classify", "normalize", "model">>
  /\ ~response[1].results[1].success
  /\ kind[1][2] = "Video"
  /\ ModelFailed(1, 2)
  /\ env[1][2].store = "throw"
  /\ ops[1][2] = <<"classify", "sample", "model", "store">>
  /\ ~response[1].results[2].success

----------------------------------------------------------------------------
(* Order of the items of one request *)

\* Item i is between its classification and its terminal outcome.
InFlight(r, i) ==
  stage[r][i] \in {"Classified", "Normalizing", "Sampling", "Assessing",
                   "Persisting"}

\* C21: within one request the items are processed one after the other in
\* submission order: item j is not classified (nothing has been done for it)
\* until every item before it has its terminal outcome, so at most one item
\* of the request is between classification and outcome, the entries
\* are pushed in submission order and the rows are inserted in that order.
C21_OneItemAtATime ==
  /\ \A i, j \in Started(1) :
       i < j /\ ~Terminal(1, i) =>
         (stage[1][j] = "Received" /\ ops[1][j] = <<>>)
  /\ Cardinality({i \in Started(1) : InFlight(1, i)}) <= 1
  /\ \A k \in 1..Len(results[1]) :
       \E i \in Started(1) :
         /\ Terminal(1, i)
         /\ Cardinality({j \in 1..i : Terminal(1, j)}) = k
         /\ results[1][k].originalFileName = files[1][i].originalname
  /\ \A j, k \in 1..Len(rows) :
       (j < k /\ rows[j].req = 1 /\ rows[k].req = 1) =>
         rows[j].item < rows[k].item

C21_Witness ==
  /\ Len(stage[1]) = 2
  /\ stage[1][1] = "PersistedSuccess"
  /\ stage[1][2] = "Assessing"
  /\ Len(rows) = 1
  /\ ops[1][1] = <<"classify", "normalize", "model", "store">>

----------------------------------------------------------------------------
(* Stages of an item *)

\* The stages item i can move to from stage st: the stated sequence, the
\* exits to RecordedFailure, and the step from Sampling to the insert that
\* the fallback assessment of a video takes.  "Persisting" is the wait for
\* the insert, between Assessing and the terminal stages.
StageSuccessors(r, i, st) ==
  CASE st = "Received" -> {"Classified"}
    [] st = "Classified" ->
         IF kind[r][i] = "Image" THEN {"Normalizing", "RecordedFailure"}
         ELSE IF kind[r][i] = "Video" THEN {"Sampling"}
         ELSE {"RecordedFailure"}
    [] st = "Normalizing" -> {"Assessing", "RecordedFailure"}
    [] st = "Sampling" -> {"Assessing", "Persisting"}
    [] st = "Assessing" -> {"Persisting", "RecordedFailure"}
    [] st = "Persisting" -> {"PersistedSuccess", "RecordedFailure"}
    [] OTHER -> {}

\* The stated path of a persisted item: classified, normalized or sampled,
\* assessed by the model, stored.
StatedPath(r, i) ==
  ops[r][i] = <<"classify",
                IF kind[r][i] = "Image" THEN "normalize" ELSE "sample",
                "model", "store">>

\* C22 as stated: no item reaches PersistedSuccess without having passed
\* through Normalizing or Sampling and then Assessing.
C22_AsStated ==
  \A i \in Started(1) : stage[1][i] = "PersistedSuccess" => StatedPath(1, i)

\* The entry of item i is on record and carries the tag of its stage.
TerminalEntry(r, i) ==
  /\ i <= Len(results[r])
  /\ results[r][i].success <=> stage[r][i] = "PersistedSuccess"
  /\ (RowsOf(r, i) # {}) <=> stage[r][i] = "PersistedSuccess"

\* One step moves an item to a successor of its stage or leaves it, and
\* leaves alone an item in a terminal stage and the entries pushed so far.
StageStep ==
  /\ \A i \in Started(1) :
       \/ stage'[1][i] = stage[1][i]
       \/ stage'[1][i] \in StageSuccessors(1, i, stage[1][i])
  /\ Len(results'[1]) >= Len(results[1])
  /\ SubSeq(results'[1], 1, Len(results[1])) = results[1]

\* C22, amended: an item moves through Received, Classified, Normalizing
\* (image) or Sampling (video), Assessing and the insert, leaving for
\* RecordedFailure where a check, the normalizer, the model call of an image
\* or the insert fails; an item in PersistedSuccess or RecordedFailure stays
\* there, with exactly one entry, a Success with a row in the first case and
\* a Failure without a row in the second.  An item reaches PersistedSuccess
\* on the stated path, the model having been called for it, or it is a
\* video whose frame extraction failed and which is persisted with the
\* fallback assessment without a model call.
C22_StageOrder ==
  /\ [](\A i \in Started(1) :
          /\ Terminal(1, i) <=> i <= Len(results[1])
          /\ Terminal(1, i) => TerminalEntry(1, i)
          /\ stage[1][i] = "PersistedSuccess" =>
               \/ StatedPath(1, i)
               \/ /\ ExtractionFailed(1, i)
                  /\ Times(1, i, "model") = 0
                  /\ IsDegraded(results[1][i].assessment))
  /\ [][StageStep]_vars

C22_Witness ==
  /\ Len(stage[1]) = 2
  /\ stage[1][1] = "PersistedSuccess"
  /\ env[1][1].ffmpeg = "no"
  /\ ops[1][1] = <<"classify", "store">>
  /\ stage[1][2] = "PersistedSuccess"
  /\ StatedPath(1, 2)
  /\ kind[1][2] = "Video"

----------------------------------------------------------------------------
(* Termination of a request *)

\* Upload parsing has accepted the batch of request r.
Accepted(r) == pc[r] = "handling"

\* C23: every accepted batch request is eventually answered with the
\* aggregate response, every item having then reached its terminal outcome,
\* also when a decoder invocation never returns.
C23_EventuallyAnswered ==
  Accepted(1) ~>
    (Done(1) /\ Is2xx(response[1].status)
             /\ \A i \in Started(1) : Terminal(1, i))

----------------------------------------------------------------------------
(* Temporary files of overlapping calls *)

\* Call c has started and has not returned.
Running(c) == call[c].at \notin {"idle", "returned"}

\* The paths call c uses.
PathsOf(c) ==
  {VideoPath(call[c].videoPath)} \cup
    {FramePath(call[c].framePattern, k) : k \in 1..NumFrames}

\* C24: two calls of extractVideoFrames that overlap in time never use the
\* same temporary video path or the same frame paths, and a call returns no
\* frame of the video of the other call.
C24_NoSharedTempFiles ==
  /\ (Running(1) /\ Running(2)) => PathsOf(1) \cap PathsOf(2) = {}
  /\ \A c \in Reqs :
       \A k \in 1..Len(call[c].frames) : call[c].frames[k] = c

----------------------------------------------------------------------------
(* The multi-image assessment *)

\* The normalizer accepts image k of the call.
Prepares(k) ==
  prepareImageForVision(batchCall.images[k].b64len,
                        batchCall.images[k].mimeType,
                        batchCall.images[k].decodes).ok

InvalidMultiReply(reply) ==
  \/ reply.kind # "json"
  \/ reply.grade \notin Grades
  \/ reply.confidence < ConfidenceMin
  \/ reply.confidence > ConfidenceMax
  \/ \E k \in 1..Len(reply.detailedFindings) :
       reply.detailedFindings[k].severity \notin Severities
  \/ \E k \in 1..Len(reply.imageAnalyses) :
       reply.imageAnalyses[k].imageIndex < 1

\* C25: a multi-image call whose images all pass normalization sends exactly
\* one model request, with one part per image, in input order, each in the
\* canonical format; a call with no image or with an image that fails
\* normalization fails without a model request; a reply that is not JSON
\* or that the schema rejects makes the call fail; a call that fails returns
\* no assessment, and one that succeeds returns the validated reply.
C25_OneRequestAllImages ==
  batchCall.state = "returned" =>
    LET images == batchCall.images
        allOk == \A k \in 1..Len(images) : Prepares(k)
    IN /\ (Len(images) >= 1 /\ allOk) =>
            /\ Len(batchCall.requests) = 1
            /\ Len(batchCall.parts) = Len(images)
            /\ Len(batchCall.prepared) = Len(images)
            /\ \A k \in 1..Len(images) :
                 /\ batchCall.parts[k].from = images[k]
                 /\ batchCall.parts[k].label = k
                 /\ batchCall.parts[k].mime = CanonicalMime
                 /\ batchCall.requests[1][k] = CanonicalMime
       /\ (Len(images) = 0 \/ ~allOk) =>
            /\ batchCall.requests = <<>>
            /\ batchCall.parts = <<>>
            /\ ~batchCall.ok
       /\ (batchCall.requests # <<>> /\ InvalidMultiReply(batchCall.reply)) =>
            ~batchCall.ok
       /\ ~batchCall.ok => batchCall.value = NoAssessment
       /\ batchCall.ok =>
            /\ Len(images) >= 1
            /\ allOk
            /\ ~InvalidMultiReply(batchCall.reply)
            /\ batchCall.value.grade = batchCall.reply.grade
            /\ batchCall.value.confidence = batchCall.reply.confidence
            /\ batchCall.error = ""

C25_Witness ==
  /\ batchCall.state = "returned"
  /\ Len(batchCall.images) = 2
  /\ batchCall.images[1].mimeType = <<"image", "png">>
  /\ batchCall.images[2].mimeType = <<"image", "jpeg">>
  /\ Len(batchCall.requests) = 1
  /\ batchCall.parts[1].from = batchCall.images[1]
  /\ batchCall.parts[2].from = batchCall.images[2]
  /\ batchCall.reply.kind = "json"
  /\ batchCall.reply.grade = "B"
  /\ batchCall.reply.imageAnalyses[1].imageIndex = 0
  /\ ~batchCall.ok
  /\ batchCall.value = NoAssessment

----------------------------------------------------------------------------
(* The frame rate of the video metadata *)

\* The frame rate as the fraction "n/d" gives it by arithmetic, 0 for a
\* text that is not a numeric fraction with a quotient.
StatedFps(text) ==
  IF text.form = "fraction" /\ text.d # 0 /\ text.n # 0
    THEN Num(text.n, text.d)
  ELSE IF text.form = "fraction" /\ text.d = 0 /\ text.n # 0
    THEN Infinity
  ELSE Num(0, 1)

\* C26: the reported frame rate is a function of the numeric fraction only;
\* the text of the probe output is never run as code, so the call has no
\* effect, and a text that is not a numeric fraction gives an fps of 0 and
\* changes nothing else of the metadata.
C26_FrameRateParsed ==
  (probe.state = "returned" /\ probe.out.exec = "ok" /\ probe.out.hasVideo) =>
    /\ probe.effects = {}
    /\ probe.metadata.fps = StatedFps(probe.out.r_frame_rate)
    /\ probe.metadata.duration = probe.out.duration
    /\ probe.metadata.width = probe.out.width
    /\ probe.metadata.height = probe.out.height

----------------------------------------------------------------------------
(* Classifier and normalizer *)

\* C27: a file the handler classifies as Image has a declared type the
\* normalizer accepts, so no Image item ends as a Failure because of its
\* declared type.
C27_ImagesPassAllowList ==
  \A i \in Started(1) :
    kind[1][i] = "Image" =>
      /\ ~OutsideAllowList(files[1][i].mimetype)
      /\ "normalize" \in Calls(1, i) =>
           env[1][i].prepared # NoMime \/ env[1][i].decode = "fail"
      /\ (Terminal(1, i) /\ ~results[1][i].success) =>
           results[1][i].error # UnsupportedFormatError

----------------------------------------------------------------------------
(* Upload filter and classifier *)

\* C28: the upload filter and the classifier of the handler agree: a file
\* is admitted by the filter exactly when the handler classifies it as Image
\* or Video.
C28_FilterAgreesWithClassifier ==
  Classified => (fileFilter(cIn) <=> cOut.kind \in {"Image", "Video"})

----------------------------------------------------------------------------
(* The two upload endpoints *)

\* What becomes of a one-file request at an endpoint whose filter admits or
\* refuses the file and whose loop gives it the kind k: the request is
\* refused at upload parsing, the file gets a Failure entry, or it enters
\* the image or the video path and is persisted with that fileType.
Route(admitted, k) ==
  IF ~admitted THEN "refused"
  ELSE IF k = "Unsupported" THEN "failure"
  ELSE IF k = "Image" THEN "image"
  ELSE "video"

\* C29: POST /api/assessments and POST /api/assessments/batch give the same
\* file the same outcome: the same classification and, the model, the
\* decoder and the store behaving the same, the same tag and the same
\* persisted fileType.
C29_SameOutcomeAtBothEndpoints ==
  Classified =>
    Route(cOut.admitted, cOut.kind) = Route(cOut.batchAdmitted, cOut.batchKind)

----------------------------------------------------------------------------
(* The success flag of the aggregate response *)

\* C30: the top-level success flag is true in every 2xx response of POST
\* /api/assessments, whatever the tags of the items, also when every item is
\* a Failure; a response that is not 2xx carries no true flag.
C30_SuccessFlagAlwaysTrue ==
  Done(1) =>
    /\ Is2xx(response[1].status) => response[1].success
    /\ ~Is2xx(response[1].status) => ~response[1].success

C30_Witness ==
  /\ Done(1)
  /\ Is2xx(response[1].status)
  /\ response[1].success
  /\ Len(response[1].results) = 2
  /\ \A k \in 1..2 : ~response[1].results[k].success
  /\ Len(rows) = 0

====
